---- MODULE Spec2Model ----
(***************************************************************************)
(* A model of rastreio-xml: the XML access-key extractor                   *)
(* (utils/xmlParser.ts), the SSW tracking normalizer                       *)
(* (services/trackingService.ts) and the App's submission handlers         *)
(* (App.tsx).                                                              *)
(*                                                                         *)
(* Conventions.                                                            *)
(*  - JavaScript strings are TLA+ strings; positions are 1-based here and  *)
(*    0-based in the source.  String literals of the source are written    *)
(*    without their diacritics ("Nao disponivel" for "Não disponível") so  *)
(*    that every length is counted on ASCII text; no decision of the code  *)
(*    depends on a diacritic.                                              *)
(*  - A JavaScript value is a record tagged by its typeof (JUndef, JNull,  *)
(*    JStr, JNum, JBool, JObj, JArr).  Numbers are fixed-point with three  *)
(*    decimals: JNum(m) is the number m / 1000.                            *)
(*  - An instant is [d |-> days since 1970-01-01, s |-> second of the      *)
(*    day], in UTC.                                                        *)
(*  - A function that may throw returns [kind |-> "return", ...] or        *)
(*    [kind |-> "throw", message |-> ...].                                 *)
(***************************************************************************)
EXTENDS Integers, Sequences, FiniteSets, TLC

VARIABLES
    trackingIdInput,          \* App.tsx useState: text of the key input
    trackingData,             \* App.tsx useState: the stored record or JNull
    geminiSummary,            \* App.tsx useState: the AI summary or JNull
    isLoading,                \* App.tsx useState
    error,                    \* App.tsx useState: the error text or JNull
    isGeneratingPdfActive,    \* App.tsx useState
    generatePdfStatusMessage, \* App.tsx useState
    pc,                       \* where the running handler is suspended
    pending,                  \* locals of the suspended handler
    requests,                 \* keys sent to the provider, oldest first
    xmlIn,                    \* the file last given to parseXmlAndExtractAccessKey
    xmlOut,                   \* how that promise settled
    sswIn,                    \* arguments and environment of the last fetchTrackingData
    sswOut,                   \* how that promise settled
    env,                      \* the build's API_KEY and the host's time zone
    fnIn,                     \* the argument of the last call of a date helper, or
                              \* the last call of generateContent
    fnOut,                    \* what that call returned, or how the summary settled
    clock,                    \* the host's clock: hours since ClockStart
    sswAgain,                 \* how a repetition of the last fetchTrackingData settled
    timers                    \* App.tsx setTimeout: callbacks waiting to clear the PDF status

vars == <<trackingIdInput, trackingData, geminiSummary, isLoading, error,
          isGeneratingPdfActive, generatePdfStatusMessage, pc, pending,
          requests, xmlIn, xmlOut, sswIn, sswOut, env, fnIn, fnOut, clock, sswAgain,
          timers>>

---------------------------------------------------------------------------
(* JavaScript values *)

JUndef == [t |-> "undefined"]
JNull == [t |-> "null"]
JNaN == [t |-> "number", nan |-> TRUE]
JStr(s) == [t |-> "string", s |-> s]
JNum(m) == [t |-> "number", m |-> m]
JBool(b) == [t |-> "boolean", b |-> b]
JObj(f) == [t |-> "object", f |-> f]
JArr(a) == [t |-> "array", a |-> a]

IsStr(v) == v.t = "string"
IsNaN(v) == v = JNaN
IsNullish(v) == v.t \in {"undefined", "null"}

\* ToBoolean: what `if (v)`, `!v`, `v || w` and `v ? a : b` test.
Truthy(v) ==
    CASE v.t = "undefined" -> FALSE
      [] v.t = "null" -> FALSE
      [] v.t = "string" -> v.s # ""
      [] v.t = "number" -> v # JNaN /\ v.m # 0
      [] v.t = "boolean" -> v.b
      [] OTHER -> TRUE

\* v || w
Or(v, w) == IF Truthy(v) THEN v ELSE w

\* o.k for a non-nullish o: an own field of an object, undefined otherwise
\* (a string, number or boolean has none of the fields the code reads).
Get(o, k) == IF o.t = "object" /\ k \in DOMAIN o.f THEN o.f[k] ELSE JUndef

---------------------------------------------------------------------------
(* Strings *)

\* s.slice(from - 1, to): the characters from..to that exist.
Slice(s, from, to) ==
    LET a == IF from < 1 THEN 1 ELSE from
        b == IF to > Len(s) THEN Len(s) ELSE to
    IN IF a > b THEN "" ELSE SubSeq(s, a, b)

\* s.charAt(i - 1): "" outside the string.
CharAt(s, i) == Slice(s, i, i)

Digits == {"0", "1", "2", "3", "4", "5", "6", "7", "8", "9"}
WhiteSpace == {" ", "\t", "\n", "\r"}
LowerLetters == "abcdefghijklmnopqrstuvwxyz"
UpperLetters == "ABCDEFGHIJKLMNOPQRSTUVWXYZ"

IsDigit(c) == c \in Digits

DigitVal(c) ==
    CASE c = "0" -> 0 [] c = "1" -> 1 [] c = "2" -> 2 [] c = "3" -> 3
      [] c = "4" -> 4 [] c = "5" -> 5 [] c = "6" -> 6 [] c = "7" -> 7
      [] c = "8" -> 8 [] c = "9" -> 9

DigitChar(n) == CharAt("0123456789", n + 1)

UpperChar(c) ==
    IF \E i \in 1..26 : CharAt(LowerLetters, i) = c
    THEN CharAt(UpperLetters, CHOOSE i \in 1..26 : CharAt(LowerLetters, i) = c)
    ELSE c

LowerChar(c) ==
    IF \E i \in 1..26 : CharAt(UpperLetters, i) = c
    THEN CharAt(LowerLetters, CHOOSE i \in 1..26 : CharAt(UpperLetters, i) = c)
    ELSE c

RECURSIVE ToLowerCase(_)
ToLowerCase(s) ==
    IF s = "" THEN "" ELSE LowerChar(CharAt(s, 1)) \o ToLowerCase(Slice(s, 2, Len(s)))

RECURSIVE ToUpperCase(_)
ToUpperCase(s) ==
    IF s = "" THEN "" ELSE UpperChar(CharAt(s, 1)) \o ToUpperCase(Slice(s, 2, Len(s)))

\* /^\d+$/.test(s)
AllDigits(s) == Len(s) > 0 /\ \A i \in 1..Len(s) : IsDigit(CharAt(s, i))

StartsWith(s, p) == Len(s) >= Len(p) /\ Slice(s, 1, Len(p)) = p

\* s.includes(p)
Includes(s, p) == \E i \in 1..(Len(s) - Len(p) + 1) : Slice(s, i, i + Len(p) - 1) = p

\* s.substring(from) and s.substring(from, to), 0-based as in the source
SubstringFrom(s, from) == Slice(s, from + 1, Len(s))
Substring(s, from, to) == Slice(s, from + 1, IF to < Len(s) THEN to ELSE Len(s))

RECURSIVE TrimStart(_)
TrimStart(s) ==
    IF s # "" /\ CharAt(s, 1) \in WhiteSpace THEN TrimStart(Slice(s, 2, Len(s))) ELSE s

RECURSIVE TrimEnd(_)
TrimEnd(s) ==
    IF s # "" /\ CharAt(s, Len(s)) \in WhiteSpace
    THEN TrimEnd(Slice(s, 1, Len(s) - 1)) ELSE s

\* s.trim()
Trim(s) == TrimEnd(TrimStart(s))

\* The length of the run of decimal digits of s that starts at position i.
RECURSIVE DigitRun(_, _)
DigitRun(s, i) ==
    IF i <= Len(s) /\ IsDigit(CharAt(s, i)) THEN 1 + DigitRun(s, i + 1) ELSE 0

\* The length of the run of white space of s that starts at position i.
RECURSIVE SpaceRun(_, _)
SpaceRun(s, i) ==
    IF i <= Len(s) /\ CharAt(s, i) \in WhiteSpace THEN 1 + SpaceRun(s, i + 1) ELSE 0

\* The number a string of decimal digits writes.
RECURSIVE DigitsToNat(_)
DigitsToNat(s) ==
    IF s = "" THEN 0
    ELSE 10 * DigitsToNat(Slice(s, 1, Len(s) - 1)) + DigitVal(CharAt(s, Len(s)))

\* String(n) for a natural number n.
RECURSIVE NatToString(_)
NatToString(n) ==
    IF n < 10 THEN DigitChar(n) ELSE NatToString(n \div 10) \o DigitChar(n % 10)

\* n written with at least w digits: padStart(w, "0").
RECURSIVE Pad(_, _)
Pad(n, w) ==
    LET str == NatToString(n) IN
    IF Len(str) >= w THEN str ELSE "0" \o Pad(n, w - 1)

\* s.split(sep) for a one-character separator.
RECURSIVE Split(_, _)
Split(s, sep) ==
    IF \E i \in 1..Len(s) : CharAt(s, i) = sep
    THEN LET i == CHOOSE k \in 1..Len(s) :
                    CharAt(s, k) = sep /\ \A j \in 1..(k - 1) : CharAt(s, j) # sep
         IN <<Slice(s, 1, i - 1)>> \o Split(Slice(s, i + 1, Len(s)), sep)
    ELSE <<s>>

\* c repeated n times.
RECURSIVE Rep(_, _)
Rep(c, n) == IF n = 0 THEN "" ELSE c \o Rep(c, n - 1)

Min(S) == CHOOSE x \in S : \A y \in S : x <= y

\* The members of a finite set of integers, ascending.
RECURSIVE Ascending(_)
Ascending(S) == IF S = {} THEN <<>> ELSE <<Min(S)>> \o Ascending(S \ {Min(S)})

---------------------------------------------------------------------------
(* Numbers *)

\* parseInt(s, 10): optional white space, an optional sign, then the longest
\* run of digits; NaN when there is none.  The result is a whole JNum.
NumberStart(t) == IF t # "" /\ CharAt(t, 1) \in {"-", "+"} THEN 2 ELSE 1
Signed(t, n) == IF t # "" /\ CharAt(t, 1) = "-" THEN 0 - n ELSE n

ParseIntAt(t, from, run) ==
    IF run = 0 THEN JNaN
    ELSE JNum(1000 * Signed(t, DigitsToNat(Slice(t, from, from + run - 1))))
ParseIntFrom(t, from) == ParseIntAt(t, from, DigitRun(t, from))
ParseIntTrimmed(t) == ParseIntFrom(t, NumberStart(t))
ParseInt(s) == ParseIntTrimmed(TrimStart(s))

\* parseFloat(s): optional white space, an optional sign, digits, an optional
\* fraction; NaN when no digit starts it.  Decimals after the third are cut.
FractionRun(t, at) == IF at <= Len(t) /\ CharAt(t, at) = "." THEN DigitRun(t, at + 1) ELSE 0
ParseFloatAt(t, from, run, frun) ==
    IF run = 0 /\ frun = 0 THEN JNaN
    ELSE JNum(Signed(t, 1000 * DigitsToNat(Slice(t, from, from + run - 1))
                        + DigitsToNat(Slice(Slice(t, from + run + 1, from + run + frun)
                                                \o "000", 1, 3))))
ParseFloatRun(t, from, run) == ParseFloatAt(t, from, run, FractionRun(t, from + run))
ParseFloatFrom(t, from) == ParseFloatRun(t, from, DigitRun(t, from))
ParseFloatTrimmed(t) == ParseFloatFrom(t, NumberStart(t))
ParseFloat(s) == ParseFloatTrimmed(TrimStart(s))

\* x.toFixed(2) for x >= 0: two decimals, the third rounded half up.
ToFixed2(x) ==
    LET c == (x.m + 5) \div 10
    IN NatToString(c \div 100) \o "." \o Pad(c % 100, 2)

\* String(x) for a number x >= 0 (template literals, string concatenation).
RECURSIVE StripZeros(_)
StripZeros(s) == IF s # "" /\ CharAt(s, Len(s)) = "0" THEN StripZeros(Slice(s, 1, Len(s) - 1)) ELSE s

NumToString(x) ==
    IF x = JNaN THEN "NaN"
    ELSE IF x.m % 1000 = 0 THEN NatToString(x.m \div 1000)
    ELSE NatToString(x.m \div 1000) \o "." \o StripZeros(Pad(x.m % 1000, 3))

\* `${v}`: the string a template literal puts for v.
JsToString(v) ==
    CASE v.t = "string" -> v.s
      [] v.t = "number" -> NumToString(v)
      [] v.t = "boolean" -> IF v.b THEN "true" ELSE "false"
      [] v.t = "undefined" -> "undefined"
      [] v.t = "null" -> "null"
      [] v.t = "array" -> "[array]"
      [] OTHER -> "[object Object]"

---------------------------------------------------------------------------
(* The DOM.  A document is the sequence of its elements in document order; *)
(* an element is [tag, parent, text, id]: parent is the position of its    *)
(* parent element (0 for the root element), text its own character data,   *)
(* id the value of its Id attribute (JNull when it has none).              *)

Node(tag, parent, text, id) == [tag |-> tag, parent |-> parent, text |-> text, id |-> id]

\* Whether element i lies strictly inside element scope (0: the document).
RECURSIVE IsDescendant(_, _, _)
IsDescendant(doc, i, scope) ==
    IF scope = 0 THEN TRUE
    ELSE IF doc[i].parent = 0 THEN FALSE
    ELSE doc[i].parent = scope \/ IsDescendant(doc, doc[i].parent, scope)

\* Whether element i matches the selector "chain[1] > chain[2] > ...".
RECURSIVE MatchesSelector(_, _, _)
MatchesSelector(doc, i, chain) ==
    /\ doc[i].tag = chain[Len(chain)]
    /\ \/ Len(chain) = 1
       \/ /\ doc[i].parent # 0
          /\ MatchesSelector(doc, doc[i].parent, SubSeq(chain, 1, Len(chain) - 1))

SelectorMatches(doc, scope, chain) ==
    {i \in 1..Len(doc) : IsDescendant(doc, i, scope) /\ MatchesSelector(doc, i, chain)}

\* scope.querySelector(selector): the first match in document order, 0 for null.
QuerySelector(doc, scope, chain) ==
    IF SelectorMatches(doc, scope, chain) = {} THEN 0
    ELSE Min(SelectorMatches(doc, scope, chain))

\* scope.querySelectorAll(selector), in document order.
QuerySelectorAll(doc, scope, chain) == Ascending(SelectorMatches(doc, scope, chain))

\* element.textContent: its character data and its descendants', in order.
RECURSIVE ConcatText(_, _)
ConcatText(doc, idx) ==
    IF idx = <<>> THEN "" ELSE doc[Head(idx)].text \o ConcatText(doc, Tail(idx))

TextContent(doc, i) ==
    ConcatText(doc, Ascending({j \in 1..Len(doc) : j = i \/ IsDescendant(doc, j, i)}))

\* element?.querySelector(selector)?.textContent
TextOf(doc, scope, chain) ==
    IF QuerySelector(doc, scope, chain) = 0 THEN JUndef
    ELSE JStr(TextContent(doc, QuerySelector(doc, scope, chain)))

\* element?.querySelector(selector)?.textContent?.trim()
TrimmedTextOf(doc, scope, chain) ==
    IF TextOf(doc, scope, chain) = JUndef THEN JUndef
    ELSE JStr(Trim(TextOf(doc, scope, chain).s))

---------------------------------------------------------------------------
(* utils/xmlParser.ts *)

KeyLen == 44
PrefixedIdLen == 47
KeyPreviewLen == 20

ReadErrorMessage ==
    "Falha ao ler o arquivo XML. Certifique-se de que o arquivo e valido e tente novamente."
EmptyFileMessage == "Falha ao ler o conteudo do arquivo XML."
MalformedXmlMessage ==
    "Arquivo XML invalido ou mal formatado. Verifique o console do navegador para mais detalhes."
MissingRootMessage ==
    "Elemento 'infNFe' nao encontrado no XML. Nao e possivel extrair informacoes."
KeyNotFoundMessage ==
    "Chave de acesso (chNFe ou Id da NFe) nao encontrada no XML. Verifique se o arquivo e um XML de NF-e valido e contem a chave."
InvalidKeyMessage(accessKey) ==
    "Chave encontrada (\"" \o Substring(accessKey, 0, KeyPreviewLen)
        \o "...\") mas nao e uma chave de acesso valida (44 digitos numericos)."

\* A variant of getNumericContent that hands on what parseFloat gave.
getNumericContent_KeepsNaN(doc, element, selector) ==
    LET text == TextOf(doc, element, selector) IN
    IF Truthy(text) THEN ParseFloat(text.s) ELSE JUndef

\* getNumericContent
NumberOrUndefined(num) == IF IsNaN(num) THEN JUndef ELSE num
getNumericContent(doc, element, selector) ==
    LET text == TextOf(doc, element, selector) IN
    IF Truthy(text) THEN NumberOrUndefined(ParseFloat(text.s)) ELSE JUndef

\* getTextContent
getTextContent(doc, element, selector) ==
    Or(TrimmedTextOf(doc, element, selector), JUndef)

\* Mutant of IsValidKey: the numeric test is left out.
IsValidKey_LengthOnly(accessKey) ==
    IsStr(accessKey) /\ Len(accessKey.s) = KeyLen

\* accessKey.length === 44 && /^\d+$/.test(accessKey), for a string or null
IsValidKey(accessKey) ==
    IsStr(accessKey) /\ Len(accessKey.s) = KeyLen /\ AllDigits(accessKey.s)

\* DOMParser.parseFromString: a text that is not well-formed gives a document
\* that holds a parsererror element.
ParseFromString(file) ==
    IF file.state = "malformed" THEN <<Node("parsererror", 0, "error", JNull)>>
    ELSE file.nodes

\* A variant of the candidate list with the most general selector first.
infNFeBaseSelectors_GeneralFirst ==
    <<<<"infNFe">>, <<"NFe", "infNFe">>, <<"nfeProc", "NFe", "infNFe">>>>

infNFeBaseSelectors == <<<<"nfeProc", "NFe", "infNFe">>, <<"NFe", "infNFe">>, <<"infNFe">>>>
protNFeSelectors == <<<<"nfeProc", "protNFe", "infProt">>, <<"protNFe", "infProt">>>>

\* The loop over infNFeBaseSelectors from selector n on: the first element found.
RECURSIVE FindInfNFe(_, _)
FindInfNFe(xmlDoc, n) ==
    IF n > Len(infNFeBaseSelectors) THEN 0
    ELSE IF QuerySelector(xmlDoc, 0, infNFeBaseSelectors[n]) # 0
         THEN QuerySelector(xmlDoc, 0, infNFeBaseSelectors[n])
         ELSE FindInfNFe(xmlDoc, n + 1)

\* The loop over protNFeSelectors from selector n on, entered with accessKey:
\* the value of accessKey when the loop ends.
RECURSIVE ProtocolKey(_, _, _)
ProtocolKey(xmlDoc, n, accessKey) ==
    IF n > Len(protNFeSelectors) THEN accessKey
    ELSE LET infProtElement == QuerySelector(xmlDoc, 0, protNFeSelectors[n])
             found == Or(TrimmedTextOf(xmlDoc, infProtElement, <<"chNFe">>), JNull)
         IN IF infProtElement = 0 THEN ProtocolKey(xmlDoc, n + 1, accessKey)
            ELSE IF Truthy(found) /\ IsValidKey(found) THEN found
            ELSE ProtocolKey(xmlDoc, n + 1, JNull)

\* The branch on the Id attribute: accessKey after it.
IdAttrKey(idAttr) ==
    IF ~Truthy(idAttr) THEN JNull
    ELSE IF StartsWith(ToUpperCase(idAttr.s), "NFE") /\ Len(idAttr.s) = PrefixedIdLen
         THEN JStr(SubstringFrom(idAttr.s, 3))
    ELSE IF Len(idAttr.s) = KeyLen /\ AllDigits(idAttr.s) THEN idAttr
    ELSE JNull

\* The fallback block entered when the protocol gave no key.
FallbackKey(xmlDoc, infNFeElement) ==
    LET fromId == IdAttrKey(xmlDoc[infNFeElement].id) IN
    IF ~Truthy(fromId) \/ ~IsValidKey(fromId)
    THEN Or(TrimmedTextOf(xmlDoc, infNFeElement, <<"chNFe">>), JNull)
    ELSE fromId

\* Mutant of ResolveAccessKey: the fallback block runs before the protocol.
ResolveAccessKey_FallbackFirst(xmlDoc, infNFeElement) ==
    LET fromFallback == FallbackKey(xmlDoc, infNFeElement) IN
    IF Truthy(fromFallback) /\ IsValidKey(fromFallback) THEN fromFallback
    ELSE ProtocolKey(xmlDoc, 1, JNull)

\* accessKey as it stands before the final validation.
ResolveAccessKey(xmlDoc, infNFeElement) ==
    LET fromProt == ProtocolKey(xmlDoc, 1, JNull) IN
    IF ~Truthy(fromProt) THEN FallbackKey(xmlDoc, infNFeElement) ELSE fromProt

ExtractVolumeInfo(xmlDoc, infNFeElement) ==
    LET volElement == QuerySelector(xmlDoc, infNFeElement, <<"transp", "vol">>) IN
    IF volElement = 0 THEN JUndef
    ELSE JObj([quantity |-> getNumericContent(xmlDoc, volElement, <<"qVol">>),
               species |-> getTextContent(xmlDoc, volElement, <<"esp">>),
               netWeight |-> getNumericContent(xmlDoc, volElement, <<"pesoL">>),
               grossWeight |-> getNumericContent(xmlDoc, volElement, <<"pesoB">>)])

ExtractInvoiceInfo(xmlDoc, infNFeElement) ==
    LET fatElement == QuerySelector(xmlDoc, infNFeElement, <<"cobr", "fat">>) IN
    IF fatElement = 0 THEN JUndef
    ELSE JObj([number |-> getTextContent(xmlDoc, fatElement, <<"nFat">>),
               originalValue |-> getNumericContent(xmlDoc, fatElement, <<"vOrig">>),
               discountValue |-> getNumericContent(xmlDoc, fatElement, <<"vDesc">>),
               netValue |-> getNumericContent(xmlDoc, fatElement, <<"vLiq">>)])

MapInstallment(xmlDoc, dup) ==
    JObj([number |-> getTextContent(xmlDoc, dup, <<"nDup">>),
          dueDate |-> getTextContent(xmlDoc, dup, <<"dVenc">>),
          value |-> getNumericContent(xmlDoc, dup, <<"vDup">>)])

\* .filter(dup => dup.number || dup.dueDate || dup.value)
KeepInstallment(dup) ==
    Truthy(Or(Or(Get(dup, "number"), Get(dup, "dueDate")), Get(dup, "value")))

ExtractInstallments(xmlDoc, infNFeElement) ==
    LET dupElements == QuerySelectorAll(xmlDoc, infNFeElement, <<"cobr", "dup">>)
        mapped == [i \in 1..Len(dupElements) |-> MapInstallment(xmlDoc, dupElements[i])]
        kept == SelectSeq(mapped, KeepInstallment)
    IN IF Len(dupElements) > 0 /\ Len(kept) # 0 THEN JArr(kept) ELSE JUndef

\* reader.onload, from the parse on.
WithAccessKey(xmlDoc, infNFeElement, accessKey) ==
    IF ~Truthy(accessKey) \/ ~IsValidKey(accessKey)
    THEN (IF Truthy(accessKey)
          THEN [kind |-> "reject", message |-> InvalidKeyMessage(accessKey.s)]
          ELSE [kind |-> "reject", message |-> KeyNotFoundMessage])
    ELSE [kind |-> "resolve",
          data |-> [accessKey |-> accessKey.s,
                    carrierName |->
                        getTextContent(xmlDoc, infNFeElement,
                                       <<"transp", "transporta", "xNome">>),
                    volumeInfo |-> ExtractVolumeInfo(xmlDoc, infNFeElement),
                    invoiceInfo |-> ExtractInvoiceInfo(xmlDoc, infNFeElement),
                    installments |-> ExtractInstallments(xmlDoc, infNFeElement)]]

WithInfNFe(xmlDoc, infNFeElement) ==
    IF infNFeElement = 0 THEN [kind |-> "reject", message |-> MissingRootMessage]
    ELSE WithAccessKey(xmlDoc, infNFeElement, ResolveAccessKey(xmlDoc, infNFeElement))

ParseDocument(xmlDoc) ==
    IF QuerySelector(xmlDoc, 0, <<"parsererror">>) # 0
    THEN [kind |-> "reject", message |-> MalformedXmlMessage]
    ELSE WithInfNFe(xmlDoc, FindInfNFe(xmlDoc, 1))

ParseXmlString(file) == ParseDocument(ParseFromString(file))

\* parseXmlAndExtractAccessKey: how the promise settles for a file.
parseXmlAndExtractAccessKey(file) ==
    IF file.state = "unreadable" THEN [kind |-> "reject", message |-> ReadErrorMessage]
    ELSE IF file.state = "empty" THEN [kind |-> "reject", message |-> EmptyFileMessage]
    ELSE ParseXmlString(file)

---------------------------------------------------------------------------
(* The XML files the model submits.                                        *)
(* A file is [state, nodes]: state is "unreadable" (FileReader fails),     *)
(* "empty" (it reads as ""), "malformed" (the text is not well-formed XML) *)
(* or "wellformed", and nodes is the document of a well-formed text.       *)

\* A block of elements whose parents are positions inside the block (0: the
\* block's top level), placed after `base` elements under element `attach`.
Place(block, base, attach) ==
    [i \in 1..Len(block) |->
        [block[i] EXCEPT !.parent = IF block[i].parent = 0 THEN attach
                                    ELSE block[i].parent + base]]

Leaf(tag, parent, text) == Node(tag, parent, text, JNull)

Key1 == Rep("1", KeyLen)
Key2 == Rep("2", KeyLen)
Key3 == Rep("3", KeyLen)
NonNumeric44 == Rep("7", KeyLen - 1) \o "A"

\* What the protocol holds: JUndef (no protNFe subtree), JNull (an infProt
\* without chNFe) or the text of its chNFe.
ProtChoices ==
    {JUndef, JNull, JStr(""), JStr(Key1), JStr("  " \o Key1 \o "\n"), JStr("123"),
     JStr(NonNumeric44)}

\* The Id attribute of infNFe: JNull (none) or its value.
IdChoices ==
    {JNull, JStr("NFe" \o Key2), JStr("nfe" \o Key2), JStr(Key2),
     JStr("NFe" \o NonNumeric44), JStr("XYZ" \o Key2), JStr("NFe123")}

\* The chNFe child of infNFe: JNull (none) or its text.
ChildChoices == {JNull, JStr(""), JStr(Key3), JStr(" " \o Key3), JStr("123"), JStr(NonNumeric44)}

\* The other children of infNFe (carrier, volume, billing, installments).
ExtraNone == <<>>
ExtraCarrier ==
    <<Leaf("transp", 0, ""), Leaf("transporta", 1, ""), Leaf("xNome", 2, "Transportes Alfa")>>
ExtraFull ==
    <<Leaf("transp", 0, ""), Leaf("transporta", 1, ""), Leaf("xNome", 2, "  Beta Log "),
      Leaf("vol", 1, ""), Leaf("qVol", 4, "2"), Leaf("esp", 4, "CAIXA"),
      Leaf("pesoL", 4, "10.500"), Leaf("pesoB", 4, "abc"),
      Leaf("cobr", 0, ""), Leaf("fat", 9, ""), Leaf("nFat", 10, "F1"),
      Leaf("vOrig", 10, "100.00"), Leaf("vDesc", 10, ""), Leaf("vLiq", 10, "90.5"),
      Leaf("dup", 9, ""), Leaf("nDup", 15, "001"), Leaf("dVenc", 15, "2025-01-10"),
      Leaf("vDup", 15, "45.25"),
      Leaf("dup", 9, ""), Leaf("nDup", 19, ""),
      Leaf("dup", 9, ""), Leaf("vDup", 21, "0")>>
ExtraChoices == {ExtraNone, ExtraCarrier, ExtraFull}

\* infNFe at position `at` under `parent`, with its children.
InfNFeBlock(at, parent, id, child, extra) ==
    <<Node("infNFe", parent, "", id)>>
        \o (IF child = JNull THEN <<>> ELSE <<Leaf("chNFe", at, child.s)>>)
        \o Place(extra, at + (IF child = JNull THEN 0 ELSE 1), at)

\* protNFe > infProt [> chNFe] placed after `base` elements under `parent`.
ProtBlock(base, parent, prot) ==
    IF prot = JUndef THEN <<>>
    ELSE <<Leaf("protNFe", parent, ""), Leaf("infProt", base + 1, "")>>
            \o (IF prot = JNull THEN <<>> ELSE <<Leaf("chNFe", base + 2, prot.s)>>)

\* The document shapes: "nfeProc" (nfeProc > NFe > infNFe with the protocol
\* beside NFe), "envelope" (the same under a root of another name), "NFe"
\* (NFe > infNFe), "infNFe" (infNFe is the root), "noInfNFe" (nfeProc > NFe
\* without infNFe).
Shapes == {"nfeProc", "envelope", "NFe", "infNFe", "noInfNFe"}

MkDoc(shape, prot, id, child, extra) ==
    CASE shape \in {"nfeProc", "envelope"} ->
            LET top == <<Leaf(IF shape = "nfeProc" THEN "nfeProc" ELSE "enviNFe", 0, ""),
                         Leaf("NFe", 1, "")>>
                        \o InfNFeBlock(3, 2, id, child, extra)
            IN top \o ProtBlock(Len(top), 1, prot)
      [] shape = "NFe" -> <<Leaf("NFe", 0, "")>> \o InfNFeBlock(2, 1, id, child, extra)
      [] shape = "infNFe" -> InfNFeBlock(1, 0, id, child, extra)
      [] shape = "noInfNFe" ->
            <<Leaf("nfeProc", 0, ""), Leaf("NFe", 1, "")>> \o ProtBlock(2, 1, prot)

XmlDocs ==
    {MkDoc(shape, prot, id, child, extra) :
        shape \in Shapes, prot \in ProtChoices, id \in IdChoices,
        child \in ChildChoices, extra \in ExtraChoices}

\* The children of an element at `parent` for the named fields of rec that
\* are present (JUndef: the child is absent).
RECURSIVE FieldLeaves(_, _, _)
FieldLeaves(names, parent, rec) ==
    IF names = <<>> THEN <<>>
    ELSE (IF rec[Head(names)] = JUndef THEN <<>>
          ELSE <<Leaf(Head(names), parent, rec[Head(names)].s)>>)
            \o FieldLeaves(Tail(names), parent, rec)

\* transp with transporta > xNome (carrier: JUndef for none) and vol (a
\* record of its fields, JNull for none); positions are relative to infNFe.
TranspBlock(carrier, vol) ==
    LET carrierPart == IF carrier = JUndef THEN <<>>
                       ELSE <<Leaf("transporta", 1, ""), Leaf("xNome", 2, carrier.s)>>
    IN IF carrier = JUndef /\ vol = JNull THEN <<>>
       ELSE <<Leaf("transp", 0, "")>> \o carrierPart
                \o (IF vol = JNull THEN <<>>
                    ELSE <<Leaf("vol", 1, "")>>
                            \o FieldLeaves(<<"qVol", "esp", "pesoL", "pesoB">>,
                                           Len(carrierPart) + 2, vol))

\* The dup elements of cobr (at position 1), the first one placed after
\* `base` elements.
RECURSIVE DupBlocks(_, _)
DupBlocks(dups, base) ==
    IF dups = <<>> THEN <<>>
    ELSE LET block == <<Leaf("dup", 1, "")>>
                        \o FieldLeaves(<<"nDup", "dVenc", "vDup">>, base + 1, Head(dups))
         IN block \o DupBlocks(Tail(dups), base + Len(block))

\* cobr with fat (a record of its fields, JNull for none) and the dups.
CobrBlock(fat, dups) ==
    LET fatPart == IF fat = JNull THEN <<>>
                   ELSE <<Leaf("fat", 1, "")>>
                            \o FieldLeaves(<<"nFat", "vOrig", "vDesc", "vLiq">>, 2, fat)
    IN IF fat = JNull /\ dups = <<>> THEN <<>>
       ELSE <<Leaf("cobr", 0, "")>> \o fatPart \o DupBlocks(dups, Len(fatPart) + 1)

OptionalBlocks(carrier, vol, fat, dups) ==
    TranspBlock(carrier, vol) \o Place(CobrBlock(fat, dups), Len(TranspBlock(carrier, vol)), 0)

XmlCarrierChoices == {JUndef, JStr("Transportes Alfa"), JStr(""), JStr("  Beta Log ")}
VolChoices ==
    {JNull,
     [qVol |-> JUndef, esp |-> JUndef, pesoL |-> JUndef, pesoB |-> JUndef],
     [qVol |-> JStr("2"), esp |-> JStr("CAIXA"), pesoL |-> JStr("10.500"), pesoB |-> JStr("12.75")],
     [qVol |-> JStr("abc"), esp |-> JStr("  "), pesoL |-> JUndef, pesoB |-> JStr("12.75")]}
FatChoices ==
    {JNull,
     [nFat |-> JUndef, vOrig |-> JUndef, vDesc |-> JUndef, vLiq |-> JUndef],
     [nFat |-> JStr("F1"), vOrig |-> JStr("100.00"), vDesc |-> JStr("0"), vLiq |-> JStr("90.5")],
     [nFat |-> JStr(""), vOrig |-> JStr("abc"), vDesc |-> JUndef, vLiq |-> JStr("90.5")]}
DupFull == [nDup |-> JStr("001"), dVenc |-> JStr("2025-01-10"), vDup |-> JStr("45.25")]
DupDateOnly == [nDup |-> JUndef, dVenc |-> JStr("2025-02-10"), vDup |-> JStr("abc")]
DupEmpty == [nDup |-> JStr(" "), dVenc |-> JUndef, vDup |-> JStr("")]
DupChoices ==
    {<<>>, <<DupFull>>, <<DupEmpty>>, <<DupEmpty, DupFull, DupDateOnly>>, <<DupDateOnly, DupEmpty>>}

\* NFe > infNFe with a valid Id and every combination of the optional blocks.
OptionalDocs ==
    {MkDoc("NFe", JUndef, JStr("NFe" \o Key2), JNull, OptionalBlocks(carrier, vol, fat, dups)) :
        carrier \in XmlCarrierChoices, vol \in VolChoices, fat \in FatChoices,
        dups \in DupChoices}

\* Documents with two infNFe elements, the first in document order being
\* the one the less specific selector finds.
TwoRootDocs ==
    {<<Leaf("enviNFe", 0, ""), Node("infNFe", 1, "", JStr("NFe" \o Key2)),
       Leaf("nfeProc", 1, ""), Leaf("NFe", 3, ""), Node("infNFe", 4, "", JStr("NFe" \o Key3))>>,
     <<Leaf("enviNFe", 0, ""), Node("infNFe", 1, "", JStr(Key2)),
       Leaf("NFe", 1, ""), Node("infNFe", 3, "", JStr(Key3))>>,
     <<Leaf("enviNFe", 0, ""), Leaf("NFe", 1, ""), Node("infNFe", 2, "", JStr(Key2)),
       Leaf("nfeProc", 1, ""), Leaf("NFe", 4, ""), Node("infNFe", 5, "", JStr("NFe" \o Key3))>>}

XmlFiles ==
    {[state |-> "wellformed", nodes |-> doc] : doc \in XmlDocs \cup TwoRootDocs \cup OptionalDocs}
        \cup {[state |-> st, nodes |-> <<>>] : st \in {"unreadable", "empty", "malformed"}}

Pending == [kind |-> "pending"]
NoCall == [kind |-> "none"]

---------------------------------------------------------------------------
(* The App's state after construction (App.tsx, the useState calls). *)

AppInit ==
    /\ trackingIdInput = ""
    /\ trackingData = JNull
    /\ geminiSummary = JNull
    /\ isLoading = FALSE
    /\ error = JNull
    /\ isGeneratingPdfActive = FALSE
    /\ generatePdfStatusMessage = JNull
    /\ pc = "idle"
    /\ pending = NoCall
    /\ requests = <<>>
    /\ timers = 0

appVars == <<trackingIdInput, trackingData, geminiSummary, isLoading, error,
             isGeneratingPdfActive, generatePdfStatusMessage, pc, pending, requests, env,
             timers>>

\* process.env.API_KEY (JUndef: not set) and the host's offset from UTC in
\* minutes.
Env(apiKey, tz) == [API_KEY |-> apiKey, tz |-> tz]
NoEnv == Env(JUndef, 0)

---------------------------------------------------------------------------
(* SpecXml: parseXmlAndExtractAccessKey applied to every file of XmlFiles. *)

InitXml ==
    /\ AppInit
    /\ fnIn = NoCall
    /\ fnOut = NoCall
    /\ clock = 0
    /\ sswAgain = NoCall
    /\ env = NoEnv
    /\ xmlIn \in XmlFiles
    /\ xmlOut = Pending
    /\ sswIn = NoCall
    /\ sswOut = NoCall

\* The FileReader finishes and the promise settles.
XmlSettles ==
    /\ xmlOut = Pending
    /\ xmlOut' = parseXmlAndExtractAccessKey(xmlIn)
    /\ UNCHANGED <<appVars, xmlIn, sswIn, sswOut, fnIn, fnOut, clock, sswAgain>>

NextXml == XmlSettles

SpecXml == InitXml /\ [][NextXml]_vars

---------------------------------------------------------------------------
(* Claims about parseXmlAndExtractAccessKey (checked under SpecXml).       *)
(* The three candidate locations are read off the document itself, not     *)
(* through the extractor's operators.  The text of an element counts       *)
(* without its surrounding white space; the 'NFe' prefix of an Id counts   *)
(* in either letter case.                                                  *)

XmlSettled == xmlOut.kind \in {"resolve", "reject"}
XmlParsed == xmlIn.state = "wellformed"
HasInfNFe == XmlParsed /\ \E i \in 1..Len(xmlIn.nodes) : xmlIn.nodes[i].tag = "infNFe"

ExactlyDigits(str, n) ==
    Len(str) = n /\ \A i \in 1..n : SubSeq(str, i, i) \in {"0", "1", "2", "3", "4", "5", "6", "7", "8", "9"}

\* The texts of the chNFe elements under protNFe > infProt.
ProtocolTexts ==
    {Trim(xmlIn.nodes[i].text) : i \in
        {j \in 1..Len(xmlIn.nodes) :
            /\ xmlIn.nodes[j].tag = "chNFe"
            /\ xmlIn.nodes[j].parent # 0
            /\ xmlIn.nodes[xmlIn.nodes[j].parent].tag = "infProt"
            /\ xmlIn.nodes[xmlIn.nodes[j].parent].parent # 0
            /\ xmlIn.nodes[xmlIn.nodes[xmlIn.nodes[j].parent].parent].tag = "protNFe"}}

\* The Id attributes of infNFe, a 47-character one without its 'NFe' prefix.
IdTexts ==
    {IF Len(v) = 47 /\ SubSeq(v, 1, 3) \in {"NFe", "nfe", "NFE"} THEN SubSeq(v, 4, 47) ELSE v :
        v \in {xmlIn.nodes[i].id.s : i \in
                {j \in 1..Len(xmlIn.nodes) :
                    xmlIn.nodes[j].tag = "infNFe" /\ xmlIn.nodes[j].id # JNull}}}

\* The texts of the chNFe children of infNFe.
ChildTexts ==
    {Trim(xmlIn.nodes[i].text) : i \in
        {j \in 1..Len(xmlIn.nodes) :
            /\ xmlIn.nodes[j].tag = "chNFe"
            /\ xmlIn.nodes[j].parent # 0
            /\ xmlIn.nodes[xmlIn.nodes[j].parent].tag = "infNFe"}}

ValidIn(texts) == {v \in texts : ExactlyDigits(v, 44)}
HeldIn(texts) == {v \in texts : v # ""}

\* The valid value of the highest-priority location that holds one.
ExpectedKeys ==
    IF ValidIn(ProtocolTexts) # {} THEN ValidIn(ProtocolTexts)
    ELSE IF ValidIn(IdTexts) # {} THEN ValidIn(IdTexts)
    ELSE ValidIn(ChildTexts)

\* C1: for a document that parses and has an infNFe root, when one of the
\* three candidate locations holds 44 digits the promise resolves with the
\* valid value of the highest-priority such location (protocol, then Id
\* attribute, then chNFe child).
C1_HighestPriorityValidKey ==
    (XmlSettled /\ HasInfNFe /\ ExpectedKeys # {}) =>
        /\ xmlOut.kind = "resolve"
        /\ xmlOut.data.accessKey \in ExpectedKeys

\* C1 witness: the protocol holds an invalid value, the Id attribute holds a
\* prefixed valid key and a valid chNFe child exists too; the Id's key is
\* the one returned.
C1_Witness ==
    /\ xmlOut.kind = "resolve"
    /\ HeldIn(ProtocolTexts) # {} /\ ValidIn(ProtocolTexts) = {}
    /\ ValidIn(IdTexts) # {} /\ ValidIn(ChildTexts) # {}
    /\ xmlOut.data.accessKey \in ValidIn(IdTexts)
    /\ xmlOut.data.accessKey \notin ValidIn(ChildTexts)

\* C2: when no location yields a valid key, the promise rejects with the
\* invalid-key message whenever some location held an invalid value, and
\* with the key-not-found message only when no location held any value.
C2_InvalidKeyVersusNotFound ==
    (XmlSettled /\ HasInfNFe /\ ExpectedKeys = {}) =>
        /\ xmlOut.kind = "reject"
        /\ (HeldIn(ProtocolTexts) \cup HeldIn(IdTexts) \cup HeldIn(ChildTexts) # {})
              => SubSeq(xmlOut.message, 1, 17) = "Chave encontrada "
        /\ (xmlOut.message = KeyNotFoundMessage)
              => HeldIn(ProtocolTexts) \cup HeldIn(IdTexts) \cup HeldIn(ChildTexts) = {}

\* C3: every resolved ParsedXmlData has an accessKey of exactly 44 digits.
C3_ResolvedKeyIs44Digits ==
    xmlOut.kind = "resolve" => ExactlyDigits(xmlOut.data.accessKey, 44)

\* C3 witness: a key resolved from a 47-character Id attribute by stripping
\* its prefix, the protocol having given none.
C3_Witness ==
    /\ xmlOut.kind = "resolve"
    /\ ValidIn(ProtocolTexts) = {}
    /\ \E i \in 1..Len(xmlIn.nodes) :
          /\ xmlIn.nodes[i].tag = "infNFe"
          /\ xmlIn.nodes[i].id # JNull
          /\ Len(xmlIn.nodes[i].id.s) = 47
          /\ xmlOut.data.accessKey = SubSeq(xmlIn.nodes[i].id.s, 4, 47)

\* The file was read and is not empty: the parser ran.
ParserRan == xmlIn # NoCall /\ xmlIn.state \in {"wellformed", "malformed"}

RejectedWith(message) == xmlOut.kind = "reject" /\ xmlOut.message = message

\* The tag of the parent of element i ("" for the root element).
ParentTag(i) ==
    IF xmlIn.nodes[i].parent = 0 THEN "" ELSE xmlIn.nodes[xmlIn.nodes[i].parent].tag

\* The infNFe elements: all, those inside NFe, those inside nfeProc > NFe.
InfNFeAt == {i \in 1..Len(xmlIn.nodes) : xmlIn.nodes[i].tag = "infNFe"}
InfNFeInNFe == {i \in InfNFeAt : ParentTag(i) = "NFe"}
InfNFeInProc == {i \in InfNFeInNFe : ParentTag(xmlIn.nodes[i].parent) = "nfeProc"}

\* The first match of the first candidate path that matches.
FirstOf(S) == CHOOSE i \in S : \A j \in S : i <= j
ExpectedRoot ==
    IF InfNFeInProc # {} THEN FirstOf(InfNFeInProc)
    ELSE IF InfNFeInNFe # {} THEN FirstOf(InfNFeInNFe)
    ELSE FirstOf(InfNFeAt)

\* The key in the Id attribute of element i (without the 'NFe' prefix of a
\* 47-character Id), "" when it has no Id.
IdKeyOf(i) ==
    IF xmlIn.nodes[i].id = JNull THEN ""
    ELSE IF Len(xmlIn.nodes[i].id.s) = 47
            /\ SubSeq(xmlIn.nodes[i].id.s, 1, 3) \in {"NFe", "nfe", "NFE"}
    THEN SubSeq(xmlIn.nodes[i].id.s, 4, 47)
    ELSE xmlIn.nodes[i].id.s

\* C18: once the parser ran, the promise rejects with the malformed-XML error
\* exactly when the parser reported an error; otherwise it rejects with the
\* missing-root error exactly when the document has no infNFe at any of the
\* three candidate paths, and else works on the first match of the first
\* matching path in the order nfeProc > NFe > infNFe, NFe > infNFe, infNFe
\* (seen in the key it takes from that element's Id when the protocol gives
\* none).
C18_RootSelection ==
    (XmlSettled /\ ParserRan) =>
        /\ RejectedWith("Arquivo XML invalido ou mal formatado. Verifique o console do navegador para mais detalhes.")
              <=> xmlIn.state = "malformed"
        /\ XmlParsed =>
              /\ RejectedWith("Elemento 'infNFe' nao encontrado no XML. Nao e possivel extrair informacoes.")
                    <=> InfNFeAt = {}
              /\ (InfNFeAt # {} /\ ValidIn(ProtocolTexts) = {}
                        /\ ExactlyDigits(IdKeyOf(ExpectedRoot), 44))
                    => /\ xmlOut.kind = "resolve"
                       /\ xmlOut.data.accessKey = IdKeyOf(ExpectedRoot)

\* A document whose first infNFe is not inside nfeProc > NFe while a later
\* one is: the key is the later one's.
C18_Witness ==
    /\ XmlSettled /\ XmlParsed
    /\ InfNFeInProc # {}
    /\ FirstOf(InfNFeAt) # ExpectedRoot
    /\ IdKeyOf(FirstOf(InfNFeAt)) # IdKeyOf(ExpectedRoot)
    /\ ExactlyDigits(IdKeyOf(FirstOf(InfNFeAt)), 44)
    /\ xmlOut.kind = "resolve"
    /\ xmlOut.data.accessKey = IdKeyOf(ExpectedRoot)

\* The first child of element i with the given tag (0: none, also for i = 0)
\* and its text (JUndef: none).
Kids(i, tag) ==
    {j \in 1..Len(xmlIn.nodes) : xmlIn.nodes[j].parent = i /\ xmlIn.nodes[j].tag = tag}
Kid(i, tag) == IF i = 0 \/ Kids(i, tag) = {} THEN 0 ELSE FirstOf(Kids(i, tag))
KidText(i, tag) == IF Kid(i, tag) = 0 THEN JUndef ELSE JStr(xmlIn.nodes[Kid(i, tag)].text)

\* What a text field and a numeric field are expected to be for the text of
\* their element: undefined when the element is absent, blank or (numeric
\* fields) no number.
ExpectedText(v) == IF v = JUndef \/ Trim(v.s) = "" THEN JUndef ELSE JStr(Trim(v.s))
ExpectedNumber(v) ==
    IF v = JUndef THEN JUndef
    ELSE CASE v.s = "0" -> JNum(0)
           [] v.s = "2" -> JNum(2000)
           [] v.s = "10.500" -> JNum(10500)
           [] v.s = "12.75" -> JNum(12750)
           [] v.s = "100.00" -> JNum(100000)
           [] v.s = "90.5" -> JNum(90500)
           [] v.s = "45.25" -> JNum(45250)
           [] OTHER -> JUndef

VolElement == Kid(Kid(ExpectedRoot, "transp"), "vol")
FatElement == Kid(Kid(ExpectedRoot, "cobr"), "fat")
DupElements == Kids(Kid(ExpectedRoot, "cobr"), "dup")

ExpectedCarrier == ExpectedText(KidText(Kid(Kid(ExpectedRoot, "transp"), "transporta"), "xNome"))
ExpectedVolume ==
    IF VolElement = 0 THEN JUndef
    ELSE JObj([quantity |-> ExpectedNumber(KidText(VolElement, "qVol")),
               species |-> ExpectedText(KidText(VolElement, "esp")),
               netWeight |-> ExpectedNumber(KidText(VolElement, "pesoL")),
               grossWeight |-> ExpectedNumber(KidText(VolElement, "pesoB"))])
ExpectedInvoice ==
    IF FatElement = 0 THEN JUndef
    ELSE JObj([number |-> ExpectedText(KidText(FatElement, "nFat")),
               originalValue |-> ExpectedNumber(KidText(FatElement, "vOrig")),
               discountValue |-> ExpectedNumber(KidText(FatElement, "vDesc")),
               netValue |-> ExpectedNumber(KidText(FatElement, "vLiq"))])
ExpectedInstallment(dup) ==
    JObj([number |-> ExpectedText(KidText(dup, "nDup")),
          dueDate |-> ExpectedText(KidText(dup, "dVenc")),
          value |-> ExpectedNumber(KidText(dup, "vDup"))])

\* C19: a document with an infNFe root and a valid key resolves whatever
\* optional blocks and sub-fields are present, absent, empty or non-numeric:
\* the key is the one its locations give, and carrierName, each field of
\* volumeInfo and invoiceInfo and each field of every installment is what
\* its own element gives, undefined when that is missing or unreadable.
C19_OptionalFieldsIndependent ==
    (XmlSettled /\ HasInfNFe /\ ExpectedKeys # {}) =>
        /\ xmlOut.kind = "resolve"
        /\ xmlOut.data.accessKey \in ExpectedKeys
        /\ xmlOut.data.carrierName = ExpectedCarrier
        /\ xmlOut.data.volumeInfo = ExpectedVolume
        /\ xmlOut.data.invoiceInfo = ExpectedInvoice
        /\ IF DupElements = {} THEN xmlOut.data.installments = JUndef
           ELSE \/ xmlOut.data.installments = JUndef
                \/ /\ xmlOut.data.installments.t = "array"
                   /\ \A i \in 1..Len(xmlOut.data.installments.a) :
                         xmlOut.data.installments.a[i]
                            \in {ExpectedInstallment(dup) : dup \in DupElements}

\* A document without carrier and billing block whose volume block has a
\* non-numeric quantity and a blank species: both are undefined, the gross
\* weight and the installments are there.
C19_Witness ==
    /\ xmlOut.kind = "resolve"
    /\ xmlOut.data.carrierName = JUndef
    /\ xmlOut.data.invoiceInfo = JUndef
    /\ KidText(VolElement, "qVol") = JStr("abc")
    /\ xmlOut.data.volumeInfo =
          JObj([quantity |-> JUndef, species |-> JUndef, netWeight |-> JUndef,
                grossWeight |-> JNum(12750)])
    /\ xmlOut.data.installments # JUndef

\* The installment entries, in document order, and those of them in which
\* at least one of number, due date and value is present.
RECURSIVE InOrder(_)
InOrder(S) == IF S = {} THEN <<>> ELSE <<FirstOf(S)>> \o InOrder(S \ {FirstOf(S)})
HasSomeField(entry) ==
    \/ entry.f.number # JUndef
    \/ entry.f.dueDate # JUndef
    \/ entry.f.value # JUndef
ExpectedInstallments ==
    SelectSeq([i \in 1..Cardinality(DupElements) |->
                    ExpectedInstallment(InOrder(DupElements)[i])],
              HasSomeField)

\* C20: installments is the document-order list of exactly the installment
\* entries in which at least one of number, due date and value is present,
\* and is undefined, never an empty list, when no entry remains.
C20_InstallmentsKept ==
    (XmlSettled /\ xmlOut.kind = "resolve") =>
        xmlOut.data.installments =
            IF ExpectedInstallments = <<>> THEN JUndef ELSE JArr(ExpectedInstallments)

---------------------------------------------------------------------------
(* Date.  An instant is [d |-> days since 1970-01-01, s |-> second of the  *)
(* day] in UTC; InvalidDate is the Date whose time value is NaN.  The host *)
(* time zone is an offset in minutes east of UTC.                          *)

InvalidDate == [nan |-> TRUE]
Instant(d, s) == [d |-> d, s |-> s]
SecondsPerDay == 86400

\* The proleptic Gregorian calendar: days since 1970-01-01 of y-m-d.
DaysFromCivil(y, m, d) ==
    LET yy == IF m <= 2 THEN y - 1 ELSE y
        era == yy \div 400
        yoe == yy - era * 400
        doy == (153 * (IF m > 2 THEN m - 3 ELSE m + 9) + 2) \div 5 + d - 1
        doe == yoe * 365 + yoe \div 4 - yoe \div 100 + doy
    IN era * 146097 + doe - 719468

\* The inverse: [y, m, d] of a day number.
CivilFromDays(z) ==
    LET zz == z + 719468
        era == zz \div 146097
        doe == zz - era * 146097
        yoe == (doe - doe \div 1460 + doe \div 36524 - doe \div 146096) \div 365
        doy == doe - (365 * yoe + yoe \div 4 - yoe \div 100)
        mp == (5 * doy + 2) \div 153
        d == doy - (153 * mp + 2) \div 5 + 1
        m == IF mp < 10 THEN mp + 3 ELSE mp - 9
    IN [y |-> (yoe + era * 400) + (IF m <= 2 THEN 1 ELSE 0), m |-> m, d |-> d]

\* t moved by delta seconds.
AddSeconds(t, delta) ==
    Instant(t.d + ((t.s + delta) \div SecondsPerDay), (t.s + delta) % SecondsPerDay)

\* Date.UTC(year, month, day) with a 0-based month; months and days outside
\* their range carry over.  (Years 0..99 do not occur: the caller has year >= 2000.)
DateUTC(year, month, day) ==
    Instant(DaysFromCivil(year + (month \div 12), (month % 12) + 1, 1) + day - 1, 0)

\* new Date(0)
Epoch == Instant(0, 0)

\* Whether a precedes, equals or follows b: the sign of a.getTime() - b.getTime().
CompareInstants(a, b) ==
    IF a.d # b.d THEN (IF a.d < b.d THEN -1 ELSE 1)
    ELSE IF a.s # b.s THEN (IF a.s < b.s THEN -1 ELSE 1)
    ELSE 0

\* date.toISOString() of a valid date of the years 0..9999.
ToISOString(t) ==
    LET c == CivilFromDays(t.d) IN
    Pad(c.y, 4) \o "-" \o Pad(c.m, 2) \o "-" \o Pad(c.d, 2) \o "T"
        \o Pad(t.s \div 3600, 2) \o ":" \o Pad((t.s % 3600) \div 60, 2) \o ":"
        \o Pad(t.s % 60, 2) \o ".000Z"

DaysInMonth(y, m) == DaysFromCivil(IF m = 12 THEN y + 1 ELSE y, IF m = 12 THEN 1 ELSE m + 1, 1)
                        - DaysFromCivil(y, m, 1)

\* The characters of str at the positions of `at` are all digits.
DigitsAt(str, at) == \A i \in at : i <= Len(str) /\ IsDigit(CharAt(str, i))

NumAt(str, from, to) == DigitsToNat(Slice(str, from, to))

\* Date.parse of the ISO forms: "YYYY-MM-DD" (UTC), "YYYY-MM-DDTHH:MM:SS"
\* with an optional ".mmm" and then "Z" (UTC) or nothing (local time).
IsIsoDate(str) ==
    /\ Len(str) >= 10
    /\ DigitsAt(str, {1, 2, 3, 4, 6, 7, 9, 10})
    /\ CharAt(str, 5) = "-" /\ CharAt(str, 8) = "-"
    /\ NumAt(str, 6, 7) \in 1..12
    /\ NumAt(str, 9, 10) \in 1..DaysInMonth(NumAt(str, 1, 4), NumAt(str, 6, 7))

IsIsoTime(str) ==
    /\ Len(str) >= 19
    /\ CharAt(str, 11) = "T"
    /\ DigitsAt(str, {12, 13, 15, 16, 18, 19})
    /\ CharAt(str, 14) = ":" /\ CharAt(str, 17) = ":"
    /\ NumAt(str, 12, 13) \in 0..23 /\ NumAt(str, 15, 16) \in 0..59
    /\ NumAt(str, 18, 19) \in 0..59

IsoRest(str) ==
    LET rest == SubstringFrom(str, 19) IN
    IF Len(rest) >= 4 /\ CharAt(rest, 1) = "." /\ DigitsAt(rest, {2, 3, 4})
    THEN SubstringFrom(rest, 4) ELSE rest

ParseIso(str, tz) ==
    LET day == DaysFromCivil(NumAt(str, 1, 4), NumAt(str, 6, 7), NumAt(str, 9, 10))
        sec == NumAt(str, 12, 13) * 3600 + NumAt(str, 15, 16) * 60 + NumAt(str, 18, 19)
    IN IF ~IsIsoDate(str) THEN InvalidDate
       ELSE IF Len(str) = 10 THEN Instant(day, 0)
       ELSE IF ~IsIsoTime(str) THEN InvalidDate
       ELSE IF IsoRest(str) = "Z" THEN Instant(day, sec)
       ELSE IF IsoRest(str) = "" THEN AddSeconds(Instant(day, sec), 0 - tz * 60)
       ELSE InvalidDate

\* Date.parse of "M/D/YYYY" with an optional " HH:MM:SS": not an ECMAScript
\* format; the engines of the browsers read it month first, in local time,
\* and give NaN when the first number is no month.
IsSlashDate(str) ==
    /\ Len(str) >= 10
    /\ DigitsAt(str, {1, 2, 4, 5, 7, 8, 9, 10})
    /\ CharAt(str, 3) = "/" /\ CharAt(str, 6) = "/"

ParseSlash(str, tz) ==
    LET month == NumAt(str, 1, 2)
        dayOfMonth == NumAt(str, 4, 5)
        year == NumAt(str, 7, 10)
        hasTime == /\ Len(str) = 19 /\ CharAt(str, 11) = " "
                   /\ DigitsAt(str, {12, 13, 15, 16, 18, 19})
                   /\ CharAt(str, 14) = ":" /\ CharAt(str, 17) = ":"
                   /\ NumAt(str, 12, 13) \in 0..23 /\ NumAt(str, 15, 16) \in 0..59
                   /\ NumAt(str, 18, 19) \in 0..59
        sec == IF hasTime
               THEN NumAt(str, 12, 13) * 3600 + NumAt(str, 15, 16) * 60 + NumAt(str, 18, 19)
               ELSE 0
    IN IF month \notin 1..12 \/ dayOfMonth \notin 1..31 THEN InvalidDate
       ELSE IF Len(str) # 10 /\ ~hasTime THEN InvalidDate
       ELSE AddSeconds(Instant(DaysFromCivil(year, month, 1) + dayOfMonth - 1, sec),
                       0 - tz * 60)

\* new Date(str) for a string, in a host whose zone is tz minutes east of UTC.
NewDate(str, tz) ==
    IF IsSlashDate(str) THEN ParseSlash(str, tz) ELSE ParseIso(str, tz)

\* date.toLocaleDateString('pt-BR', {day: '2-digit', month: '2-digit',
\* year: 'numeric'}): the calendar day of the instant in the host's zone.
ToLocaleDateString(t, tz) ==
    LET c == CivilFromDays(AddSeconds(t, tz * 60).d) IN
    Pad(c.d, 2) \o "/" \o Pad(c.m, 2) \o "/" \o NatToString(c.y)

---------------------------------------------------------------------------
(* services/trackingService.ts *)

Return(info) == [kind |-> "return", info |-> info]
Throw(message) == [kind |-> "throw", message |-> message]

\* The messages of the TypeErrors the engine raises (V8's wording).
NullReadMessage == "Cannot read properties of null"
NotAFunctionMessage == "is not a function"
FetchFailedMessage == "Failed to fetch"
JsonSyntaxMessage == "Unexpected token < in JSON at position 0"

defaultCarrierName == "SSW Transportes"
NotAvailable == "Nao disponivel"
NoDocumentStatus == "Nenhuma informacao de rastreamento disponivel. (Sem 'documento')"
NoEventsStatus == "Nenhum evento de rastreamento encontrado."
StatusUnavailable == "Informacao de status indisponivel"
UnknownStatus == "Status Desconhecido"
UnknownLocation == "Local Desconhecido"
GenericNotFoundMessage == "Chave de rastreamento nao encontrada ou invalida no SSW."
UnexpectedErrorMessage ==
    "Ocorreu um erro inesperado ao buscar as informacoes de rastreamento. Verifique o console para detalhes."
IssuanceCode == "80"
IssuancePhrase == "DOCUMENTO DE TRANSPORTE EMITIDO"
DeliveryLabel == "PREVISAO DE ENTREGA: "

EmptyObject == JObj([k \in {} |-> JUndef])

\* parseSswDateForDelivery: an ISO string, or null.
DateFromYear(day, month, fullYear) ==
    IF fullYear < 2000 \/ fullYear > 2100 THEN JNull
    ELSE JStr(ToISOString(DateUTC(fullYear, month, day)))
DateFromNumbers(day, monthPlus1, year, yearLength) ==
    IF IsNaN(day) \/ IsNaN(monthPlus1) \/ IsNaN(year) THEN JNull
    ELSE DateFromYear(day.m \div 1000, monthPlus1.m \div 1000 - 1,
                      IF yearLength = 2 THEN year.m \div 1000 + 2000 ELSE year.m \div 1000)
DateFromParts(dateParts) ==
    IF Len(dateParts) # 3 THEN JNull
    ELSE DateFromNumbers(ParseInt(dateParts[1]), ParseInt(dateParts[2]),
                         ParseInt(dateParts[3]), Len(dateParts[3]))
DateFromTrimmed(trimmed) ==
    IF trimmed = "" THEN JNull ELSE DateFromParts(Split(Split(trimmed, " ")[1], "/"))
parseSswDateForDelivery(dateString) ==
    IF ~Truthy(dateString) \/ ~IsStr(dateString) THEN JNull
    ELSE DateFromTrimmed(Trim(dateString.s))

\* desc.match(/Previsao de entrega: (\d{1,2}\/\d{1,2}\/\d{2,4})/i): the
\* positions at which the whole pattern matches, and the group of a match.
DeliveryMatchAt(desc, i) ==
    LET j == i + Len(DeliveryLabel)
        r1 == DigitRun(desc, j)
        r2 == DigitRun(desc, j + r1 + 1)
        r3 == DigitRun(desc, j + r1 + 1 + r2 + 1)
    IN /\ r1 \in {1, 2} /\ CharAt(desc, j + r1) = "/"
       /\ r2 \in {1, 2} /\ CharAt(desc, j + r1 + 1 + r2) = "/"
       /\ r3 >= 2
       /\ ToUpperCase(Slice(desc, i, j - 1)) = DeliveryLabel

DeliveryGroup(desc, i) ==
    LET j == i + Len(DeliveryLabel)
        r1 == DigitRun(desc, j)
        r2 == DigitRun(desc, j + r1 + 1)
        r3 == DigitRun(desc, j + r1 + 1 + r2 + 1)
    IN Slice(desc, j, j + r1 + 1 + r2 + 1 + (IF r3 > 4 THEN 4 ELSE r3) - 1)

\* deliveryMatch && deliveryMatch[1]: the group of the leftmost match, or undefined.
DeliveryMatchFrom(desc, at) ==
    IF at = {} THEN JUndef ELSE JStr(DeliveryGroup(desc, Min(at)))
DeliveryMatch(desc) == DeliveryMatchFrom(desc, {i \in 1..Len(desc) : DeliveryMatchAt(desc, i)})

\* desc.match(/(\d+(\.\d+)?)\s*Kg/i): the end of the number of a match that
\* starts at i (0: no match starts there).
WeightEndAt(desc, i) ==
    LET r == DigitRun(desc, i)
        j == i + r
        fr == IF CharAt(desc, j) = "." THEN DigitRun(desc, j + 1) ELSE 0
        k == IF fr > 0 THEN j + 1 + fr ELSE j
        unit == k + SpaceRun(desc, k)
    IN IF r >= 1 /\ ToUpperCase(Slice(desc, unit, unit + 1)) = "KG" THEN k ELSE 0

\* weightMatch && weightMatch[1]
WeightMatchFrom(desc, at) ==
    IF at = {} THEN JUndef ELSE JStr(Slice(desc, Min(at), WeightEndAt(desc, Min(at)) - 1))
WeightMatch(desc) == WeightMatchFrom(desc, {i \in 1..Len(desc) : WeightEndAt(desc, i) # 0})

\* new Date(): the reading of the host's clock.
ClockStart == DateUTC(2026, 0, 15)
DateNow == AddSeconds(ClockStart, clock * 3600)

\* The timestamp of a raw event: the native parse of data_hora, the epoch
\* when it is missing, not a string or unparsable.
TimestampOf(parsedDate) ==
    IF parsedDate # InvalidDate THEN ToISOString(parsedDate) ELSE ToISOString(Epoch)
\* A variant that stamps an event without a date with the time of the call.
EventTimestampOf_Now(data_hora, tz) ==
    IF Truthy(data_hora) /\ IsStr(data_hora) THEN TimestampOf(NewDate(data_hora.s, tz))
    ELSE ToISOString(DateNow)
EventTimestampOf(data_hora, tz) ==
    IF Truthy(data_hora) /\ IsStr(data_hora) THEN TimestampOf(NewDate(data_hora.s, tz))
    ELSE ToISOString(Epoch)
EventTimestamp(event, tz) == EventTimestampOf(Get(event, "data_hora"), tz)

\* A variant of the map callback without the defaults of status and location.
MapEvent_NoDefaults(event, tz) ==
    [timestamp |-> EventTimestamp(event, tz),
     status |-> Get(event, "ocorrencia"),
     location |-> Get(event, "cidade"),
     details |-> Or(Get(event, "descricao"), JUndef)]

\* The callback of sswEventsData.map, for an event that is not null or undefined.
MapEvent(event, tz) ==
    [timestamp |-> EventTimestamp(event, tz),
     status |-> Or(Get(event, "ocorrencia"), JStr(UnknownStatus)),
     location |-> Or(Get(event, "cidade"), JStr(UnknownLocation)),
     details |-> Or(Get(event, "descricao"), JUndef)]

\* The comparator of the sort: negative when a goes first.
CompareEvents(a, b, tz) ==
    CompareInstants(NewDate(b.timestamp, tz), NewDate(a.timestamp, tz))

\* A variant of the insertion that is not stable: x goes before the elements
\* it compares equal to.
RECURSIVE InsertSorted_BeforeEquals(_, _, _)
InsertSorted_BeforeEquals(sorted, x, tz) ==
    IF sorted = <<>> THEN <<x>>
    ELSE IF CompareEvents(sorted[Len(sorted)], x, tz) < 0 THEN Append(sorted, x)
    ELSE Append(InsertSorted_BeforeEquals(SubSeq(sorted, 1, Len(sorted) - 1), x, tz),
                sorted[Len(sorted)])

\* Array.prototype.sort is stable: x goes behind every element that does not
\* compare after it.
RECURSIVE InsertSorted(_, _, _)
InsertSorted(sorted, x, tz) ==
    IF sorted = <<>> THEN <<x>>
    ELSE IF CompareEvents(sorted[Len(sorted)], x, tz) <= 0 THEN Append(sorted, x)
    ELSE Append(InsertSorted(SubSeq(sorted, 1, Len(sorted) - 1), x, tz), sorted[Len(sorted)])

RECURSIVE SortEvents(_, _)
SortEvents(events, tz) ==
    IF events = <<>> THEN <<>>
    ELSE InsertSorted(SortEvents(SubSeq(events, 1, Len(events) - 1), tz),
                      events[Len(events)], tz)

\* The callback of sswEventsData.find: "yes", "no", or "throw" when
\* ocorrencia is neither nullish nor a string and so has no toUpperCase.
IsInitialEvent(e) ==
    LET ocorrencia == Get(e, "ocorrencia") IN
    IF Get(e, "codigo_ssw") = JStr(IssuanceCode) THEN "yes"
    ELSE IF IsNullish(ocorrencia) THEN "no"
    ELSE IF ~IsStr(ocorrencia) THEN "throw"
    ELSE IF Includes(ToUpperCase(ocorrencia.s), IssuancePhrase) THEN "yes"
    ELSE "no"

\* sswEventsData.find(...) from position n on: the position of the first
\* event the callback accepts, 0 for undefined, -1 when the callback throws.
RECURSIVE FindInitialEvent(_, _)
FindInitialEvent(sswEventsData, n) ==
    IF n > Len(sswEventsData) THEN 0
    ELSE IF IsInitialEvent(sswEventsData[n]) = "yes" THEN n
    ELSE IF IsInitialEvent(sswEventsData[n]) = "throw" THEN -1
    ELSE FindInitialEvent(sswEventsData, n + 1)

\* estimatedDelivery as computed from the description of the initial event.
DeliveryFromParsed(parsedEstDeliveryDate, tz) ==
    IF Truthy(parsedEstDeliveryDate)
    THEN ToLocaleDateString(NewDate(parsedEstDeliveryDate.s, tz), tz)
    ELSE NotAvailable
DeliveryFromMatch(deliveryMatch, tz) ==
    IF Truthy(deliveryMatch)
    THEN DeliveryFromParsed(parseSswDateForDelivery(deliveryMatch), tz)
    ELSE NotAvailable
EstimatedDeliveryFrom(desc, tz) == DeliveryFromMatch(DeliveryMatch(desc), tz)

\* calculatedWeight as computed from the description of the initial event.
WeightFromMatch(weightMatch) ==
    IF Truthy(weightMatch) THEN JStr(ToFixed2(ParseFloat(weightMatch.s)) \o " kg")
    ELSE JUndef
WeightFrom(desc) == WeightFromMatch(WeightMatch(desc))

ProductName(header, accessKey) ==
    IF Truthy(Get(header, "nro_nf"))
    THEN JStr("Nota Fiscal: " \o JsToString(Get(header, "nro_nf")))
    ELSE JStr("DANFE: " \o accessKey)

\* A variant of the no-document record whose carrier has no default.
NoDocumentInfo_NoCarrierDefault(accessKey, carrierNameFromXml) ==
    [id |-> accessKey,
     carrier |-> carrierNameFromXml,
     estimatedDelivery |-> NotAvailable,
     currentStatus |-> JStr(NoDocumentStatus),
     events |-> <<>>,
     origin |-> JStr("Nao informado"),
     destination |-> JStr("Nao informado"),
     productName |-> JStr("DANFE: " \o accessKey),
     weight |-> JUndef]

\* The record returned when the payload has no documento.
NoDocumentInfo(accessKey, carrierNameFromXml) ==
    [id |-> accessKey,
     carrier |-> Or(carrierNameFromXml, JStr(defaultCarrierName)),
     estimatedDelivery |-> NotAvailable,
     currentStatus |-> JStr(NoDocumentStatus),
     events |-> <<>>,
     origin |-> JStr("Nao informado"),
     destination |-> JStr("Nao informado"),
     productName |-> JStr("DANFE: " \o accessKey),
     weight |-> JUndef]

\* A variant of the no-events record that takes origin and destination from
\* the header only when the header has both.
NoEventsInfo_AllOrNothing(accessKey, carrierNameFromXml, header) ==
    LET complete == Truthy(Get(header, "remetente")) /\ Truthy(Get(header, "destinatario")) IN
    [id |-> accessKey,
     carrier |-> Or(carrierNameFromXml, JStr(defaultCarrierName)),
     estimatedDelivery |-> NotAvailable,
     currentStatus |-> JStr(NoEventsStatus),
     events |-> <<>>,
     origin |-> IF complete THEN Get(header, "remetente") ELSE JStr("Origem nao informada"),
     destination |-> IF complete THEN Get(header, "destinatario")
                     ELSE JStr("Destino nao informado"),
     productName |-> ProductName(header, accessKey),
     weight |-> JUndef]

\* The record returned when tracking is missing, not an array or empty.
NoEventsInfo(accessKey, carrierNameFromXml, header) ==
    [id |-> accessKey,
     carrier |-> Or(carrierNameFromXml, JStr(defaultCarrierName)),
     estimatedDelivery |-> NotAvailable,
     currentStatus |-> JStr(NoEventsStatus),
     events |-> <<>>,
     origin |-> Or(Get(header, "remetente"), JStr("Origem nao informada")),
     destination |-> Or(Get(header, "destinatario"), JStr("Destino nao informado")),
     productName |-> ProductName(header, accessKey),
     weight |-> JUndef]

\* Lines 119-187: the record built from a non-empty tracking array.
BuildTrackingInfo(accessKey, carrierNameFromXml, header, events, desc, tz) ==
    IF Truthy(desc) /\ ~IsStr(desc) THEN Throw(NotAFunctionMessage)
    ELSE Return(
            [id |-> accessKey,
             carrier |-> Or(carrierNameFromXml, JStr(defaultCarrierName)),
             estimatedDelivery |-> IF Truthy(desc) THEN EstimatedDeliveryFrom(desc.s, tz)
                                   ELSE NotAvailable,
             currentStatus |-> events[1].status,
             origin |-> Or(Get(header, "remetente"), JStr("Origem nao informada")),
             destination |-> Or(Get(header, "destinatario"), JStr("Destino nao informado")),
             productName |-> ProductName(header, accessKey),
             weight |-> IF Truthy(desc) THEN WeightFrom(desc.s) ELSE JUndef,
             events |-> events])

\* Lines 153-187, given the sorted events and what find gave.
WithInitialEvent(accessKey, carrierNameFromXml, header, sswEventsData, events, found, tz) ==
    IF found = -1 THEN Throw(NotAFunctionMessage)
    ELSE BuildTrackingInfo(accessKey, carrierNameFromXml, header, events,
                           IF found > 0 THEN Get(sswEventsData[found], "descricao")
                           ELSE JUndef, tz)

NormalizeEvents(accessKey, carrierNameFromXml, header, sswEventsData, tz) ==
    IF \E i \in 1..Len(sswEventsData) : IsNullish(sswEventsData[i])
    THEN Throw(NullReadMessage)
    ELSE WithInitialEvent(accessKey, carrierNameFromXml, header, sswEventsData,
                          SortEvents([i \in 1..Len(sswEventsData) |->
                                         MapEvent(sswEventsData[i], tz)], tz),
                          FindInitialEvent(sswEventsData, 1), tz)

\* Lines 73-187: the try block from the parsed JSON payload on.
NormalizeResponse(accessKey, carrierNameFromXml, sswResponse, tz) ==
    LET doc == Get(sswResponse, "documento")
        header == Or(Get(doc, "header"), EmptyObject)
        sswEventsData == Get(doc, "tracking")
    IN IF IsNullish(sswResponse) THEN Throw(NullReadMessage)
       ELSE IF ~Truthy(Get(sswResponse, "success"))
       THEN Throw(JsToString(Or(Get(sswResponse, "message"), JStr(GenericNotFoundMessage))))
       ELSE IF ~Truthy(doc) THEN Return(NoDocumentInfo(accessKey, carrierNameFromXml))
       ELSE IF ~Truthy(sswEventsData) \/ sswEventsData.t # "array"
       THEN Return(NoEventsInfo(accessKey, carrierNameFromXml, header))
       ELSE IF Len(sswEventsData.a) = 0
       THEN Return(NoEventsInfo(accessKey, carrierNameFromXml, header))
       ELSE NormalizeEvents(accessKey, carrierNameFromXml, header, sswEventsData.a, tz)

\* Lines 62-71: the message thrown for a response that is not ok.
HttpErrorMessage(http) ==
    IF http.json /\ ~IsNullish(http.body) /\ Truthy(Get(http.body, "message"))
    THEN "Erro da API SSW: " \o JsToString(Get(http.body, "message"))
            \o " (Status: " \o NatToString(http.status) \o ")"
    ELSE "Falha ao buscar dados de rastreamento do SSW. Status: " \o NatToString(http.status)

\* Lines 53-187: the try block.  http is what the network gave:
\* [net |-> "down"] when fetch rejects, else [net |-> "up", status, json, body]
\* with json FALSE when the body is no JSON text.
TryBlock(accessKey, carrierNameFromXml, http, tz) ==
    IF http.net = "down" THEN Throw(FetchFailedMessage)
    ELSE IF http.status \notin 200..299 THEN Throw(HttpErrorMessage(http))
    ELSE IF ~http.json THEN Throw(JsonSyntaxMessage)
    ELSE NormalizeResponse(accessKey, carrierNameFromXml, http.body, tz)

\* Lines 189-199: the catch block: the messages it rethrows as they are.
IsKnownError(message) ==
    \/ Includes(message, "API SSW")
    \/ Includes(message, "Falha ao buscar")
    \/ Includes(message, "Chave de rastreamento nao encontrada")

\* Lines 189-199: how the promise settles once the try block has returned
\* or thrown.
CatchBlock(tried) ==
    IF tried.kind = "return" THEN [kind |-> "resolve", info |-> tried.info]
    ELSE IF IsKnownError(tried.message) THEN [kind |-> "reject", message |-> tried.message]
    ELSE [kind |-> "reject", message |-> UnexpectedErrorMessage]

\* fetchTrackingData: how the promise settles.
fetchTrackingData(accessKey, carrierNameFromXml, http, tz) ==
    CatchBlock(TryBlock(accessKey, carrierNameFromXml, http, tz))

---------------------------------------------------------------------------
(* The provider responses the model feeds to fetchTrackingData. *)

MaxEvents == 3

TzOffsets == {-180, 0, 540}

IssuedDescription == "NF 4521 - Previsao de entrega: 10/12/25 - Peso 15.50 Kg - 2 volumes"

EvIssued ==
    JObj([data_hora |-> JStr("2025-12-01T10:00:00"), codigo_ssw |-> JStr("80"),
          ocorrencia |-> JStr("DOCUMENTO DE TRANSPORTE EMITIDO"),
          cidade |-> JStr("SAO PAULO / SP"), descricao |-> JStr(IssuedDescription)])
EvDeparted ==
    JObj([data_hora |-> JStr("2025-12-03T08:30:00"), codigo_ssw |-> JStr("82"),
          ocorrencia |-> JStr("SAIDA DE UNIDADE"), cidade |-> JStr("CAMPINAS / SP"),
          descricao |-> JStr("Saida para a unidade de destino")])
EvArrived ==
    JObj([data_hora |-> JStr("2025-12-03T08:30:00"), codigo_ssw |-> JStr("84"),
          ocorrencia |-> JStr("CHEGADA EM UNIDADE"), cidade |-> JStr("RIO DE JANEIRO / RJ")])
EvNoDate ==
    JObj([codigo_ssw |-> JStr("01"), ocorrencia |-> JStr("MERCADORIA ENTREGUE"),
          descricao |-> JStr("")])
EvBadDate ==
    JObj([data_hora |-> JStr("ontem"), codigo_ssw |-> JStr("85"),
          cidade |-> JStr("NITEROI / RJ"), descricao |-> JStr("Saiu para entrega, 3 kg")])
EvIssuedText ==
    JObj([data_hora |-> JStr("2025-11-30T09:00:00Z"), codigo_ssw |-> JNum(80000),
          ocorrencia |-> JStr("Documento de transporte emitido pela filial"),
          cidade |-> JStr("CURITIBA / PR"),
          descricao |-> JStr("previsao de entrega: 5/1/2026; peso 7.126kg")])
CoreEvents == {EvIssued, EvDeparted, EvArrived, EvNoDate, EvBadDate, EvIssuedText}

\* Events dated day/month/year, as the provider's older endpoint writes them.
EvSlash ==
    JObj([data_hora |-> JStr("05/03/2024 14:30:00"), codigo_ssw |-> JStr("83"),
          ocorrencia |-> JStr("EM TRANSITO"), cidade |-> JStr("CAMPINAS / SP")])
EvSlashLate ==
    JObj([data_hora |-> JStr("25/03/2024 14:30:00"), codigo_ssw |-> JStr("01"),
          ocorrencia |-> JStr("MERCADORIA ENTREGUE"), cidade |-> JStr("NITEROI / RJ")])
SlashSeqs == {<<EvSlash>>, <<EvSlashLate>>, <<EvDeparted, EvSlash>>, <<EvSlash, EvSlashLate>>}

\* Entries that are not well-formed events.
EvNumbers ==
    JObj([data_hora |-> JNum(20251203), ocorrencia |-> JNum(82000),
          cidade |-> JStr("CAMPINAS / SP")])
EvNumDescription ==
    JObj([data_hora |-> JStr("2025-12-01T10:00:00"), codigo_ssw |-> JStr("80"),
          ocorrencia |-> JStr("DOCUMENTO DE TRANSPORTE EMITIDO"), descricao |-> JNum(15500)])
OddEvents == {JNull, JNum(7000), EvNumbers, EvNumDescription}

\* The sequences of at most n distinct core events.
RECURSIVE CoreSeqs(_)
CoreSeqs(n) ==
    IF n = 0 THEN {<<>>}
    ELSE CoreSeqs(n - 1) \cup
         {Append(p[1], p[2]) :
            p \in {r \in CoreSeqs(n - 1) \X CoreEvents :
                     /\ Len(r[1]) = n - 1
                     /\ \A i \in 1..Len(r[1]) : r[1][i] # r[2]}}

\* One odd entry alone, before or behind a core event.
OddSeqs ==
    {<<o>> : o \in OddEvents}
        \cup {<<o, c>> : o \in OddEvents, c \in CoreEvents}
        \cup {<<c, o>> : o \in OddEvents, c \in CoreEvents}

FullHeader ==
    JObj([remetente |-> JStr("LOJA ALFA LTDA"), destinatario |-> JStr("JOAO DA SILVA"),
          nro_nf |-> JStr("4521")])
HeaderChoices ==
    {JUndef, JNull, FullHeader, JStr("cabecalho"),
     JObj([nro_nf |-> JNum(4521000)]), JObj([remetente |-> JStr("LOJA ALFA LTDA")]),
     JObj([destinatario |-> JStr("JOAO DA SILVA"), nro_nf |-> JStr("")])}

\* documento with a header and a tracking field (JUndef: the field is absent).
Documento(header, tracking) ==
    JObj([k \in ({"header" : x \in {header} \ {JUndef}}
                    \cup {"tracking" : x \in {tracking} \ {JUndef}}) |->
            IF k = "header" THEN header ELSE tracking])

EmptyTrackingChoices == {JUndef, JNull, JStr("sem eventos"), JObj([total |-> JNum(0)]), JArr(<<>>)}
TruthyFlags == {JBool(TRUE), JNum(1000), JStr("true")}
FalsyFlags == {JUndef, JNull, JBool(FALSE), JNum(0), JStr("")}
MessageChoices ==
    {JUndef, JStr(""), JStr("Documento nao localizado"),
     JStr("Chave de rastreamento nao encontrada na base SSW"),
     JStr("Nenhum documento para a chave")}

\* The JSON payload with the fields that are not JUndef.
Payload(success, message, documento) ==
    JObj([k \in ({"success" : x \in {success} \ {JUndef}}
                    \cup {"message" : x \in {message} \ {JUndef}}
                    \cup {"documento" : x \in {documento} \ {JUndef}}) |->
            CASE k = "success" -> success [] k = "message" -> message
              [] k = "documento" -> documento])

Ok200(body) == [net |-> "up", status |-> 200, json |-> TRUE, body |-> body]

\* Payloads with events.
EventPayloads ==
    {Payload(JBool(TRUE), JUndef, Documento(FullHeader, JArr(q))) :
        q \in (CoreSeqs(MaxEvents) \ {<<>>}) \cup OddSeqs \cup SlashSeqs}

\* Payloads around the header and the absence of events.
HeaderPayloads ==
    {Payload(flag, JUndef, Documento(header, tracking)) :
        flag \in TruthyFlags, header \in HeaderChoices,
        tracking \in EmptyTrackingChoices \cup {JArr(<<EvDeparted>>)}}
      \cup {Payload(flag, message, documento) :
              flag \in TruthyFlags, message \in {JUndef, JStr("ok")},
              documento \in {JUndef, JNull, JBool(TRUE), JStr("documento")}}

\* Payloads that name the carrier, in the fields of the provider's older
\* endpoint (transportadora.nomeFantasia, transportadora.razaoSocial).
CarrierBlocks ==
    {JObj([nomeFantasia |-> JStr("Rapido Sul"), razaoSocial |-> JStr("Rapido Sul Ltda")]),
     JObj([razaoSocial |-> JStr("Rapido Sul Ltda")]),
     JObj([nomeFantasia |-> JStr("")])}
CarrierPayloads ==
    {Payload(JBool(TRUE), JUndef,
             JObj([header |-> FullHeader, tracking |-> tracking, transportadora |-> block])) :
        tracking \in {JArr(<<>>), JArr(<<EvDeparted>>)}, block \in CarrierBlocks}

\* Payloads of the provider's other endpoint: a result array whose element
\* carries the header data and the events under other names.
ResultEvent ==
    JObj([dataHora |-> JStr("05/03/2024 14:30:00"), codigo |-> JStr("83"),
          descricao |-> JStr("EM TRANSITO"),
          unidade |-> JObj([nome |-> JStr("CAMPINAS"), cidade |-> JStr("CAMPINAS / SP")])])
ResultElement(eventos) ==
    JObj([danfe |-> JObj([chave |-> JStr(Key1), numero |-> JStr("4521"), serie |-> JStr("1")]),
          remetente |-> JObj([nome |-> JStr("LOJA ALFA LTDA")]),
          destinatario |-> JObj([nome |-> JStr("JOAO DA SILVA")]),
          previsaoEntrega |-> JStr("10/03/2024"),
          eventos |-> JArr(eventos)])
ResultPayloads ==
    {JObj([success |-> JBool(TRUE), result |-> JArr(<<ResultElement(eventos)>>)]) :
        eventos \in {<<ResultEvent>>, <<ResultEvent, ResultEvent>>}}

\* Payloads whose success flag is false or absent.
FailurePayloads ==
    {Payload(flag, message, documento) :
        flag \in FalsyFlags, message \in MessageChoices,
        documento \in {JUndef, Documento(FullHeader, JArr(<<EvIssued>>))}}

\* Responses that carry no payload to normalize.
BrokenResponses ==
    {[net |-> "down"], Ok200(JNull),
     [net |-> "up", status |-> 200, json |-> FALSE, body |-> JNull]}
      \cup {[net |-> "up", status |-> st, json |-> js, body |-> body] :
              st \in {404, 500}, js \in BOOLEAN,
              body \in {JNull, EmptyObject, JObj([message |-> JStr("Chave invalida")])}}

TypedKeys == {Key1, "123"}
CarrierChoices == {JUndef, JStr("Transportes Alfa")}

SswCall(accessKey, carrier, http, tz) ==
    [accessKey |-> accessKey, carrierNameFromXml |-> carrier, http |-> http, tz |-> tz]

SswCalls ==
    {SswCall(Key1, JUndef, Ok200(body), tz) : body \in EventPayloads, tz \in TzOffsets}
      \cup {SswCall(Key1, carrier, Ok200(body), 0) :
              carrier \in CarrierChoices,
              body \in HeaderPayloads \cup CarrierPayloads \cup ResultPayloads}
      \cup {SswCall(key, JUndef, Ok200(body), 0) : key \in TypedKeys, body \in FailurePayloads}
      \cup {SswCall(Key1, carrier, http, 0) :
              carrier \in CarrierChoices, http \in BrokenResponses}

---------------------------------------------------------------------------
(* SpecNorm: fetchTrackingData applied to every call of SswCalls. *)

InitNorm ==
    /\ AppInit
    /\ fnIn = NoCall
    /\ fnOut = NoCall
    /\ clock = 0
    /\ sswAgain = NoCall
    /\ xmlIn = NoCall
    /\ xmlOut = NoCall
    /\ sswIn \in SswCalls
    /\ env = Env(JUndef, sswIn.tz)
    /\ sswOut = Pending

\* The provider answers (or the network fails) and the promise settles.
SswSettles ==
    /\ sswOut = Pending
    /\ sswOut' = fetchTrackingData(sswIn.accessKey, sswIn.carrierNameFromXml,
                                   sswIn.http, sswIn.tz)
    /\ UNCHANGED <<appVars, xmlIn, xmlOut, sswIn, fnIn, fnOut, clock, sswAgain>>

NextNorm == SswSettles

SpecNorm == InitNorm /\ [][NextNorm]_vars

---------------------------------------------------------------------------
(* Claims about fetchTrackingData (specification SpecNorm).  They are      *)
(* stated over the call (sswIn) and how its promise settled (sswOut), and  *)
(* read the raw payload themselves.                                        *)

SswSettled == sswOut.kind \in {"resolve", "reject"}
SswResolved == sswOut.kind = "resolve"

\* The call got a JSON object with HTTP status 200.
HasPayload ==
    /\ sswIn # NoCall
    /\ sswIn.http.net = "up"
    /\ sswIn.http.status = 200
    /\ sswIn.http.json
    /\ sswIn.http.body.t = "object"

RawField(o, k) == IF o.t = "object" /\ k \in DOMAIN o.f THEN o.f[k] ELSE JUndef
Present(v) == Truthy(v)

SuccessTruthy == HasPayload /\ Present(RawField(sswIn.http.body, "success"))
RawDocumento == RawField(sswIn.http.body, "documento")
RawHeader == RawField(RawDocumento, "header")
RawTracking == RawField(RawDocumento, "tracking")
HasRawEvents == SuccessTruthy /\ RawTracking.t = "array" /\ Len(RawTracking.a) > 0
RawEvents == RawTracking.a
OutEvents == sswOut.info.events

HeaderOr(field, default) ==
    IF Present(RawField(RawHeader, field)) THEN RawField(RawHeader, field) ELSE JStr(default)
KeyProductName == JStr("DANFE: " \o sswIn.accessKey)
HeaderProductName ==
    IF ~Present(RawField(RawHeader, "nro_nf")) THEN {KeyProductName}
    ELSE IF RawField(RawHeader, "nro_nf").t = "string"
    THEN {JStr("Nota Fiscal: " \o RawField(RawHeader, "nro_nf").s)}
    ELSE {JStr("Nota Fiscal: 4521")}

EmptyRecord(status) ==
    /\ SswResolved
    /\ OutEvents = <<>>
    /\ sswOut.info.currentStatus = JStr(status)
    /\ sswOut.info.estimatedDelivery = "Nao disponivel"

HeaderFields(originDefault, destinationDefault) ==
    /\ sswOut.info.origin = HeaderOr("remetente", originDefault)
    /\ sswOut.info.destination = HeaderOr("destinatario", destinationDefault)
    /\ sswOut.info.productName \in HeaderProductName

\* C6, as stated: with a truthy success flag and an events collection that
\* is missing, not an array or empty, the call resolves with events = [],
\* currentStatus the no-events sentinel, estimatedDelivery 'Nao disponivel',
\* and origin, destination and productName from the header or defaulted.
C6_NoEventsSentinel ==
    (SswSettled /\ SuccessTruthy /\ ~HasRawEvents) =>
        /\ EmptyRecord("Nenhum evento de rastreamento encontrado.")
        /\ \/ HeaderFields("Origem nao informada", "Destino nao informado")
           \/ HeaderFields("Nao informado", "Nao informado")

\* C6, amended: the same, but only a payload that has a documento gets the
\* no-events sentinel and the header's fields; a payload without documento
\* resolves with the no-document sentinel as currentStatus, 'Nao informado'
\* as origin and destination and the key as productName.
C6_NoEventsOrNoDocument ==
    (SswSettled /\ SuccessTruthy /\ ~HasRawEvents) =>
        IF Present(RawDocumento)
        THEN /\ EmptyRecord("Nenhum evento de rastreamento encontrado.")
             /\ HeaderFields("Origem nao informada", "Destino nao informado")
        ELSE /\ EmptyRecord("Nenhuma informacao de rastreamento disponivel. (Sem 'documento')")
             /\ sswOut.info.origin = JStr("Nao informado")
             /\ sswOut.info.destination = JStr("Nao informado")
             /\ sswOut.info.productName = KeyProductName

\* A documento without events whose header has the sender only.
C6_Witness ==
    /\ SswResolved /\ SuccessTruthy /\ ~HasRawEvents
    /\ Present(RawDocumento)
    /\ Present(RawField(RawHeader, "remetente"))
    /\ ~Present(RawField(RawHeader, "destinatario"))
    /\ sswOut.info.origin = JStr("LOJA ALFA LTDA")
    /\ sswOut.info.destination = JStr("Destino nao informado")

\* Timestamps of the record are texts YYYY-MM-DDTHH:MM:SS.000Z.
IsInstantText(ts) ==
    /\ Len(ts) = 24
    /\ \A i \in {1, 2, 3, 4, 6, 7, 9, 10, 12, 13, 15, 16, 18, 19} :
            SubSeq(ts, i, i) \in {"0", "1", "2", "3", "4", "5", "6", "7", "8", "9"}
    /\ SubSeq(ts, 5, 5) = "-" /\ SubSeq(ts, 8, 8) = "-" /\ SubSeq(ts, 11, 11) = "T"
    /\ SubSeq(ts, 14, 14) = ":" /\ SubSeq(ts, 17, 17) = ":" /\ SubSeq(ts, 20, 24) = ".000Z"

DayNumber(ts) ==
    DigitsToNat(SubSeq(ts, 1, 4)) * 10000 + DigitsToNat(SubSeq(ts, 6, 7)) * 100
        + DigitsToNat(SubSeq(ts, 9, 10))
TimeNumber(ts) ==
    DigitsToNat(SubSeq(ts, 12, 13)) * 10000 + DigitsToNat(SubSeq(ts, 15, 16)) * 100
        + DigitsToNat(SubSeq(ts, 18, 19))
Later(a, b) ==
    \/ DayNumber(a) > DayNumber(b)
    \/ DayNumber(a) = DayNumber(b) /\ TimeNumber(a) > TimeNumber(b)

Perms(n) == {p \in [1..n -> 1..n] : \A i, j \in 1..n : i # j => p[i] # p[j]}

\* What the claims expect of the output event made from a raw event.
StatusFrom(raw) ==
    IF Present(RawField(raw, "ocorrencia")) THEN RawField(raw, "ocorrencia")
    ELSE JStr("Status Desconhecido")
LocationFrom(raw) ==
    IF Present(RawField(raw, "cidade")) THEN RawField(raw, "cidade")
    ELSE JStr("Local Desconhecido")
DetailsFrom(raw) ==
    IF Present(RawField(raw, "descricao")) THEN RawField(raw, "descricao") ELSE JUndef

SameTexts(out, raw) ==
    /\ out.status = StatusFrom(raw)
    /\ out.location = LocationFrom(raw)
    /\ out.details = DetailsFrom(raw)

\* C7: the events of a returned record are sorted by timestamp, latest
\* first (strictly when the timestamps differ pairwise), events with equal
\* timestamps are in provider order, and currentStatus is the status of the
\* first event of the sorted sequence.
C7_SortedStableDescending ==
    (SswResolved /\ HasRawEvents) =>
        /\ Len(OutEvents) = Len(RawEvents)
        /\ \E p \in Perms(Len(RawEvents)) :
              /\ \A i \in 1..Len(OutEvents) : SameTexts(OutEvents[i], RawEvents[p[i]])
              /\ \A i, j \in 1..Len(OutEvents) :
                    i < j =>
                        /\ ~Later(OutEvents[j].timestamp, OutEvents[i].timestamp)
                        /\ OutEvents[i].timestamp = OutEvents[j].timestamp => p[i] < p[j]
        /\ (\A i, j \in 1..Len(RawEvents) :
                i # j => OutEvents[i].timestamp # OutEvents[j].timestamp)
            => \A i \in 1..(Len(OutEvents) - 1) :
                    Later(OutEvents[i].timestamp, OutEvents[i + 1].timestamp)
        /\ sswOut.info.currentStatus = OutEvents[1].status

\* Three events given oldest first, the two later ones at the same instant:
\* the record has the pair first, in provider order, then the oldest.
C7_Witness ==
    /\ SswResolved /\ HasRawEvents
    /\ Len(RawEvents) = 3
    /\ SameTexts(OutEvents[1], RawEvents[2])
    /\ SameTexts(OutEvents[2], RawEvents[3])
    /\ SameTexts(OutEvents[3], RawEvents[1])
    /\ OutEvents[1].timestamp = OutEvents[2].timestamp
    /\ Later(OutEvents[2].timestamp, OutEvents[3].timestamp)

EpochText == "1970-01-01T00:00:00.000Z"
RawDate(raw) == RawField(raw, "data_hora")
HasDigit(str) ==
    \E i \in 1..Len(str) :
        SubSeq(str, i, i) \in {"0", "1", "2", "3", "4", "5", "6", "7", "8", "9"}
\* The date field is missing, not a string, or a text without any number.
DateFails(raw) == RawDate(raw).t # "string" \/ ~HasDigit(RawDate(raw).s)
\* The date field is an absolute timestamp YYYY-MM-DDTHH:MM:SSZ.
DateIsUtc(raw) ==
    /\ RawDate(raw).t = "string"
    /\ Len(RawDate(raw).s) = 20
    /\ SubSeq(RawDate(raw).s, 20, 20) = "Z"

TimestampFrom(out, raw) ==
    /\ IsInstantText(out.timestamp)
    /\ DateFails(raw) => out.timestamp = EpochText
    /\ DateIsUtc(raw) => out.timestamp = SubSeq(RawDate(raw).s, 1, 19) \o ".000Z"

\* C8, as stated: the events of a returned record correspond one-to-one to
\* the raw events; each has a valid timestamp (the epoch when the date is
\* missing, not a string or unparsable), the provider's status or 'Status
\* Desconhecido', the provider's location or 'Local Desconhecido', and
\* details equal to the provider's description.
C8_OneToOneUnmodified ==
    (SswResolved /\ HasRawEvents) =>
        /\ Len(OutEvents) = Len(RawEvents)
        /\ \E p \in Perms(Len(RawEvents)) :
              \A i \in 1..Len(OutEvents) :
                  /\ TimestampFrom(OutEvents[i], RawEvents[p[i]])
                  /\ OutEvents[i].status = StatusFrom(RawEvents[p[i]])
                  /\ OutEvents[i].location = LocationFrom(RawEvents[p[i]])
                  /\ OutEvents[i].details = RawField(RawEvents[p[i]], "descricao")

\* C8, amended: the same, with details equal to the provider's description
\* when that is not empty and absent when the description is missing or
\* empty.
C8_OneToOneMapping ==
    (SswResolved /\ HasRawEvents) =>
        /\ Len(OutEvents) = Len(RawEvents)
        /\ \E p \in Perms(Len(RawEvents)) :
              \A i \in 1..Len(OutEvents) :
                  /\ TimestampFrom(OutEvents[i], RawEvents[p[i]])
                  /\ SameTexts(OutEvents[i], RawEvents[p[i]])

\* Three events, one without a date, one with an unparsable date and without
\* status, one dated: the record has three events, two at the epoch.
C8_Witness ==
    /\ SswResolved /\ HasRawEvents
    /\ Len(RawEvents) = 3 /\ Len(OutEvents) = 3
    /\ \E i \in 1..3 : RawDate(RawEvents[i]) = JUndef
    /\ \E i \in 1..3 : RawDate(RawEvents[i]) = JStr("ontem")
    /\ OutEvents[1].timestamp # EpochText
    /\ OutEvents[2].timestamp = EpochText /\ OutEvents[3].timestamp = EpochText
    /\ \E i \in 2..3 : OutEvents[i].status = JStr("Status Desconhecido")
    /\ \E i \in 2..3 : OutEvents[i].location = JStr("Local Desconhecido")

\* The issuance event: the first raw event whose code is '80' or whose
\* status text contains the issuance phrase, whatever the case of letters.
IsIssuance(raw) ==
    \/ RawField(raw, "codigo_ssw") = JStr("80")
    \/ /\ RawField(raw, "ocorrencia").t = "string"
       /\ Includes(ToUpperCase(RawField(raw, "ocorrencia").s), "DOCUMENTO DE TRANSPORTE EMITIDO")
HasIssuance == \E i \in 1..Len(RawEvents) : IsIssuance(RawEvents[i])
Issuance == RawEvents[Min({i \in 1..Len(RawEvents) : IsIssuance(RawEvents[i])})]
IssuanceText ==
    IF RawField(Issuance, "descricao").t = "string" THEN RawField(Issuance, "descricao").s
    ELSE ""

\* C9: when the description of the issuance event contains 'Previsao de
\* entrega: 10/12/25' and '15.50 Kg', estimatedDelivery is '10/12/2025' and
\* weight is '15.50 kg'; a description with 'previsao de entrega: 5/1/2026'
\* and '7.126kg' gives '05/01/2026' and '7.13 kg'.
C9_DeliveryAndWeightFromDescription ==
    (SswResolved /\ HasRawEvents /\ HasIssuance) =>
        /\ (Includes(IssuanceText, "Previsao de entrega: 10/12/25")
                /\ Includes(IssuanceText, "15.50 Kg"))
            => /\ sswOut.info.estimatedDelivery = "10/12/2025"
               /\ sswOut.info.weight = JStr("15.50 kg")
        /\ (Includes(IssuanceText, "previsao de entrega: 5/1/2026")
                /\ Includes(IssuanceText, "7.126kg"))
            => /\ sswOut.info.estimatedDelivery = "05/01/2026"
               /\ sswOut.info.weight = JStr("7.13 kg")

\* C10: for every JSON payload with a truthy success flag the call
\* resolves, and without an issuance event estimatedDelivery is 'Nao
\* disponivel' and weight is absent.
C10_TotalOverSuccessfulPayloads ==
    (SswSettled /\ SuccessTruthy) =>
        /\ SswResolved
        /\ (HasRawEvents /\ ~HasIssuance) =>
              /\ sswOut.info.estimatedDelivery = "Nao disponivel"
              /\ sswOut.info.weight = JUndef

\* A date as toLocaleDateString('pt-BR') prints it: DD/MM/YYYY.
IsFormattedDate(str) ==
    /\ Len(str) = 10
    /\ \A i \in {1, 2, 4, 5, 7, 8, 9, 10} :
            SubSeq(str, i, i) \in {"0", "1", "2", "3", "4", "5", "6", "7", "8", "9"}
    /\ SubSeq(str, 3, 3) = "/" /\ SubSeq(str, 6, 6) = "/"

\* The return path of a resolved call.
ReturnPath ==
    IF ~Present(RawDocumento) THEN "no document"
    ELSE IF ~HasRawEvents THEN "no events"
    ELSE "normal"

\* C11: every record fetchTrackingData returns, on each of its return paths
\* (no document, no events, normal), has a non-empty id, carrier,
\* estimatedDelivery, currentStatus, origin and destination, and its
\* estimatedDelivery is a formatted date or the sentinel 'Nao disponivel'.
C11_TextFieldsNeverEmpty ==
    SswResolved =>
        /\ ReturnPath \in {"no document", "no events", "normal"}
        /\ sswOut.info.id # ""
        /\ Present(sswOut.info.carrier)
        /\ sswOut.info.estimatedDelivery # ""
        /\ Present(sswOut.info.currentStatus)
        /\ Present(sswOut.info.origin)
        /\ Present(sswOut.info.destination)
        /\ \/ sswOut.info.estimatedDelivery = "Nao disponivel"
           \/ IsFormattedDate(sswOut.info.estimatedDelivery)

\* The no-document path without a carrier from the XML: the record has the
\* default carrier and the sentinels.
C11_Witness ==
    /\ SswResolved /\ ReturnPath = "no document"
    /\ sswIn.carrierNameFromXml = JUndef
    /\ sswOut.info.carrier = JStr("SSW Transportes")
    /\ sswOut.info.estimatedDelivery = "Nao disponivel"
    /\ sswOut.info.origin = JStr("Nao informado")

\* The date field is a text DD/MM/YYYY HH:MM:SS.
IsDayMonthYear(raw) ==
    /\ RawDate(raw).t = "string"
    /\ Len(RawDate(raw).s) = 19
    /\ \A i \in {1, 2, 4, 5, 7, 8, 9, 10, 12, 13, 15, 16, 18, 19} :
            SubSeq(RawDate(raw).s, i, i) \in {"0", "1", "2", "3", "4", "5", "6", "7", "8", "9"}
    /\ SubSeq(RawDate(raw).s, 3, 3) = "/" /\ SubSeq(RawDate(raw).s, 6, 6) = "/"
    /\ SubSeq(RawDate(raw).s, 11, 11) = " "
    /\ SubSeq(RawDate(raw).s, 14, 14) = ":" /\ SubSeq(RawDate(raw).s, 17, 17) = ":"

\* The instant a text DD/MM/YYYY HH:MM:SS names, read day first: as a UTC
\* time, and as a time of the host's zone.
DayFirstUtc(str) ==
    SubSeq(str, 7, 10) \o "-" \o SubSeq(str, 4, 5) \o "-" \o SubSeq(str, 1, 2) \o "T"
        \o SubSeq(str, 12, 19) \o ".000Z"
DayFirstLocal(str, tz) ==
    ToISOString(AddSeconds(
        Instant(DaysFromCivil(DigitsToNat(SubSeq(str, 7, 10)), DigitsToNat(SubSeq(str, 4, 5)),
                              DigitsToNat(SubSeq(str, 1, 2))),
                DigitsToNat(SubSeq(str, 12, 13)) * 3600 + DigitsToNat(SubSeq(str, 15, 16)) * 60
                    + DigitsToNat(SubSeq(str, 18, 19))),
        0 - tz * 60))

\* C13: the timestamp of each event is the native parse of an absolute
\* timestamp, else what the day/month/year (+ time) token parser gives, and
\* the epoch only when both fail; it is never null, and a provider date
\* '05/03/2024 14:30:00' gives 2024-03-05T14:30:00 (5 March).
C13_LenientTimestamp ==
    (SswResolved /\ HasRawEvents) =>
        /\ Len(OutEvents) = Len(RawEvents)
        /\ \E p \in Perms(Len(RawEvents)) :
              \A i \in 1..Len(OutEvents) :
                  /\ SameTexts(OutEvents[i], RawEvents[p[i]])
                  /\ IsInstantText(OutEvents[i].timestamp)
                  /\ DateIsUtc(RawEvents[p[i]])
                        => OutEvents[i].timestamp
                                = SubSeq(RawDate(RawEvents[p[i]]).s, 1, 19) \o ".000Z"
                  /\ IsDayMonthYear(RawEvents[p[i]])
                        => OutEvents[i].timestamp
                                \in {DayFirstUtc(RawDate(RawEvents[p[i]]).s),
                                     DayFirstLocal(RawDate(RawEvents[p[i]]).s, sswIn.tz)}

\* The carrier name the payload supplies: the trade name, else the company
\* name, of its transportadora block.
PayloadCarrier ==
    IF Present(RawField(RawField(RawDocumento, "transportadora"), "nomeFantasia"))
    THEN RawField(RawField(RawDocumento, "transportadora"), "nomeFantasia")
    ELSE RawField(RawField(RawDocumento, "transportadora"), "razaoSocial")

\* C14: the carrier of the record is the payload's carrier name when the
\* payload supplies one, whether or not the XML supplies a carrierName; the
\* XML's carrierName when only the XML supplies one; 'SSW Transportes' when
\* neither does.
C14_PayloadCarrierFirst ==
    (SswResolved /\ SuccessTruthy) =>
        sswOut.info.carrier =
            IF Present(PayloadCarrier) THEN PayloadCarrier
            ELSE IF Present(sswIn.carrierNameFromXml) THEN sswIn.carrierNameFromXml
            ELSE JStr("SSW Transportes")

\* The events and the sender of a payload in the result-array shape.
RawResult == RawField(sswIn.http.body, "result")
HasResultEvents ==
    /\ SuccessTruthy
    /\ RawResult.t = "array" /\ Len(RawResult.a) > 0
    /\ RawField(RawResult.a[1], "eventos").t = "array"
    /\ Len(RawField(RawResult.a[1], "eventos").a) > 0
ResultEvents == RawField(RawResult.a[1], "eventos").a
ResultSender == RawField(RawField(RawResult.a[1], "remetente"), "nome")

\* An event that is an object whose fields are all texts.
IsPlainEvent(raw) == raw.t = "object" /\ \A k \in DOMAIN raw.f : raw.f[k].t = "string"

\* C17: a successful payload in either shape gives a full record: with a
\* documento object (header and event array) the record has the header's
\* fields and one event per raw event; with a result array the record has
\* the element's sender and one event per entry of its eventos.  Neither is
\* rejected or reduced to a record without events.
C17_BothPayloadShapes ==
    /\ (SswSettled /\ HasRawEvents /\ \A i \in 1..Len(RawEvents) : IsPlainEvent(RawEvents[i]))
          => /\ SswResolved
             /\ Len(OutEvents) = Len(RawEvents)
             /\ sswOut.info.origin = HeaderOr("remetente", "Origem nao informada")
             /\ sswOut.info.destination = HeaderOr("destinatario", "Destino nao informado")
    /\ (SswSettled /\ HasResultEvents)
          => /\ SswResolved
             /\ Len(OutEvents) = Len(ResultEvents)
             /\ sswOut.info.origin = ResultSender

---------------------------------------------------------------------------
(* SpecDate: parseSswDateForDelivery applied to every text of DateInputs.  *)

DayTokens == {"05", "5", "31", "5x", "aa", ""}
MonthTokens == {"03", "3", "12", "3rd"}
YearTokens == {"24", "2024", "1999", "2000", "2100", "2101", "99", "024", "yy", "2024abc"}
TimeSuffixes == {"", " 14:30:00", "  "}

DateTexts ==
    {d \o "/" \o m \o "/" \o y \o t :
        d \in DayTokens, m \in MonthTokens, y \in YearTokens, t \in TimeSuffixes}
      \cup {"", "   ", "not-a-date", "05/03", "05/03/2024/7", " 05/03/24", "05-03-2024",
            "14:30:00 05/03/2024", "29/02/2024", "31/04/2024", "00/00/2024", "15/13/25"}

DateInputs ==
    {JStr(str) : str \in DateTexts} \cup {JNull, JUndef, JNum(5032024), JBool(TRUE), EmptyObject}

DateCall(dateString) == [fn |-> "parseSswDateForDelivery", dateString |-> dateString]

InitDate ==
    /\ AppInit
    /\ env = NoEnv
    /\ xmlIn = NoCall
    /\ xmlOut = NoCall
    /\ sswIn = NoCall
    /\ sswOut = NoCall
    /\ fnIn \in {DateCall(v) : v \in DateInputs}
    /\ fnOut = Pending
    /\ clock = 0
    /\ sswAgain = NoCall

\* The call returns.
DateParsed ==
    /\ fnOut = Pending
    /\ fnOut' = [kind |-> "return", value |-> parseSswDateForDelivery(fnIn.dateString)]
    /\ UNCHANGED <<appVars, xmlIn, xmlOut, sswIn, sswOut, fnIn, clock, sswAgain>>

NextDate == DateParsed

SpecDate == InitDate /\ [][NextDate]_vars

---------------------------------------------------------------------------
(* Claims about parseSswDateForDelivery (specification SpecDate).          *)

DateReturned == fnOut # NoCall /\ fnOut # Pending

\* A token that is a number: one or more digits and nothing else.
IsNumericToken(tok) ==
    /\ tok # ""
    /\ \A i \in 1..Len(tok) :
          SubSeq(tok, i, i) \in {"0", "1", "2", "3", "4", "5", "6", "7", "8", "9"}

\* The '/'-separated tokens of the date part (the text before the first
\* space) of a text that is not blank.
DateTokens(str) == Split(Split(Trim(str), " ")[1], "/")

\* The year a numeric year token stands for.
YearOf(tok) == IF Len(tok) = 2 THEN 2000 + DigitsToNat(tok) ELSE DigitsToNat(tok)

\* The inputs for which the claim demands null.
MustBeNull(v) ==
    \/ v.t # "string"
    \/ Trim(v.s) = ""
    \/ Len(DateTokens(v.s)) # 3
    \/ \E i \in 1..3 : ~IsNumericToken(DateTokens(v.s)[i])
    \/ YearOf(DateTokens(v.s)[3]) < 2000
    \/ YearOf(DateTokens(v.s)[3]) > 2100

\* Day and month of numeric tokens name a day of the calendar.
IsCalendarDay(tokens) ==
    /\ DigitsToNat(tokens[2]) \in 1..12
    /\ DigitsToNat(tokens[1]) >= 1
    /\ DigitsToNat(tokens[1]) <= DaysInMonth(YearOf(tokens[3]), DigitsToNat(tokens[2]))

MidnightText(tokens) ==
    Pad(YearOf(tokens[3]), 4) \o "-" \o Pad(DigitsToNat(tokens[2]), 2) \o "-"
        \o Pad(DigitsToNat(tokens[1]), 2) \o "T00:00:00.000Z"

\* C12: parseSswDateForDelivery never throws; it returns null for null,
\* undefined, empty or blank input, for a date part that is not three
\* '/'-separated tokens, for a day, month or year token that is not numeric
\* and for a year outside 2000..2100 (two-digit years being 2000 + yy);
\* otherwise it returns the instant at UTC midnight of that day.
C12_StrictDateParser ==
    DateReturned =>
        /\ fnOut.kind = "return"
        /\ IF MustBeNull(fnIn.dateString) THEN fnOut.value = JNull
           ELSE /\ fnOut.value.t = "string"
                /\ IsInstantText(fnOut.value.s)
                /\ TimeNumber(fnOut.value.s) = 0
                /\ IsCalendarDay(DateTokens(fnIn.dateString.s))
                      => fnOut.value.s = MidnightText(DateTokens(fnIn.dateString.s))

---------------------------------------------------------------------------
(* SpecRepeat: fetchTrackingData called twice with the same arguments and  *)
(* the same response, the second time at a later reading of the clock.     *)

MaxTicks == 2

RepeatCalls ==
    {SswCall(Key1, JUndef, Ok200(Payload(JBool(TRUE), JUndef, Documento(FullHeader, JArr(q)))), tz) :
        q \in (CoreSeqs(2) \ {<<>>}) \cup SlashSeqs, tz \in TzOffsets}
      \cup {SswCall(Key1, carrier, Ok200(body), 0) :
              carrier \in CarrierChoices, body \in HeaderPayloads}

InitRepeat ==
    /\ AppInit
    /\ fnIn = NoCall
    /\ fnOut = NoCall
    /\ xmlIn = NoCall
    /\ xmlOut = NoCall
    /\ sswIn \in RepeatCalls
    /\ env = Env(JUndef, sswIn.tz)
    /\ sswOut = Pending
    /\ clock = 0
    /\ sswAgain = NoCall

\* An hour passes.
Tick ==
    /\ clock < MaxTicks
    /\ clock' = clock + 1
    /\ UNCHANGED <<appVars, xmlIn, xmlOut, sswIn, sswOut, fnIn, fnOut, sswAgain>>

\* The first call settles; the repetition is due after the clock has moved.
FirstRun ==
    /\ sswOut = Pending
    /\ sswOut' = fetchTrackingData(sswIn.accessKey, sswIn.carrierNameFromXml,
                                   sswIn.http, sswIn.tz)
    /\ sswAgain' = [kind |-> "pending", after |-> clock]
    /\ UNCHANGED <<appVars, xmlIn, xmlOut, sswIn, fnIn, fnOut, clock>>

\* The repetition settles.
SecondRun ==
    /\ sswAgain # NoCall
    /\ sswAgain.kind = "pending"
    /\ clock > sswAgain.after
    /\ sswAgain' = fetchTrackingData(sswIn.accessKey, sswIn.carrierNameFromXml,
                                     sswIn.http, sswIn.tz)
    /\ UNCHANGED <<appVars, xmlIn, xmlOut, sswIn, sswOut, fnIn, fnOut, clock>>

NextRepeat == Tick \/ FirstRun \/ SecondRun

SpecRepeat == InitRepeat /\ [][NextRepeat]_vars

---------------------------------------------------------------------------
(* Claims about repeated calls (specification SpecRepeat).                 *)

BothSettled ==
    /\ SswSettled
    /\ sswAgain # NoCall
    /\ sswAgain.kind \in {"resolve", "reject"}

\* The events of a resolved call whose date is missing, not a string or
\* unparsable are at the epoch.
FailedDatesAtEpoch(settled) ==
    \E p \in Perms(Len(RawEvents)) :
        \A i \in 1..Len(RawEvents) :
            /\ SameTexts(settled.info.events[i], RawEvents[p[i]])
            /\ DateFails(RawEvents[p[i]])
                  => settled.info.events[i].timestamp = "1970-01-01T00:00:00.000Z"

---------------------------------------------------------------------------
(* services/geminiService.ts: how summarizeTrackingWithGemini settles.  ai *)
(* is what generateContent did: [kind |-> "text", text] (response.text, a  *)
(* string or JUndef), [kind |-> "throw", message] (an Error) or            *)
(* [kind |-> "throwValue"] (a thrown value that is no Error).              *)

SummaryNoKeyMessage == "Resumo da IA indisponivel: Chave da API nao configurada."
SummaryMissingKeyMessage == "Resumo da IA indisponivel: Chave da API ausente."
SummaryInvalidKeyMessage ==
    "Resumo da IA indisponivel: Chave da API invalida. Por favor, verifique sua configuracao."
SummaryQuotaMessage ==
    "Resumo da IA indisponivel no momento devido a limites de uso. Tente novamente mais tarde."
EmptySummaryMessage == "Recebido um resumo vazio do Gemini."

\* The catch block, lines 94-104.
SummaryFallback(errorMessage) ==
    IF Includes(ToLowerCase(errorMessage), "api key not valid")
        \/ Includes(ToLowerCase(errorMessage), "api_key_invalid")
    THEN SummaryInvalidKeyMessage
    ELSE IF Includes(ToLowerCase(errorMessage), "quota")
        \/ Includes(ToLowerCase(errorMessage), "resource has been exhausted")
    THEN SummaryQuotaMessage
    ELSE "O resumo da IA nao pode ser gerado neste momento. (Erro: " \o errorMessage \o ")"

\* date.toLocaleString('pt-BR', {day: '2-digit', month: '2-digit',
\* year: 'numeric', hour: '2-digit', minute: '2-digit'}) in the host's zone.
ToLocaleString(t, tz) ==
    LET local == AddSeconds(t, tz * 60) IN
    ToLocaleDateString(t, tz) \o ", " \o Pad(local.s \div 3600, 2) \o ":"
        \o Pad((local.s % 3600) \div 60, 2)

\* Lines 24-38: the line of the delivery date.
DeliveryLine(estimatedDelivery, tz) ==
    IF estimatedDelivery # "" /\ estimatedDelivery # "Not available"
    THEN IF NewDate(estimatedDelivery, tz) # InvalidDate
         THEN "Previsao de Entrega: " \o ToLocaleDateString(NewDate(estimatedDelivery, tz), tz)
         ELSE "Previsao de Entrega: " \o estimatedDelivery
    ELSE "Previsao de Entrega: " \o (IF estimatedDelivery # "" THEN estimatedDelivery ELSE "N/A")

\* Lines 47-54: the line of one event.
EventLine(event, tz) ==
    "- " \o ToLocaleString(NewDate(event.timestamp, tz), tz) \o ": "
        \o JsToString(event.status) \o " em " \o JsToString(event.location)
        \o (IF Truthy(event.details) THEN " (" \o JsToString(event.details) \o ")" ELSE "")

\* The number of events the prompt shows.
PromptEventLimit == 5

\* A variant that shows every event.
EventsToShow_All(events) == events

\* events.slice(0, 5)
EventsToShow(events) ==
    SubSeq(events, 1, IF Len(events) < PromptEventLimit THEN Len(events) ELSE PromptEventLimit)

\* formatTrackingDataForPrompt: the lines of promptData, in order.
formatTrackingDataForPrompt(trackingInfo, tz) ==
    <<"ID do Pacote/Nota: " \o trackingInfo.id,
      "Transportadora: " \o JsToString(trackingInfo.carrier)>>
    \o (IF Truthy(trackingInfo.productName)
        THEN <<"Conteudo/Detalhes: " \o JsToString(trackingInfo.productName)>> ELSE <<>>)
    \o <<"Status Atual: " \o JsToString(trackingInfo.currentStatus),
         DeliveryLine(trackingInfo.estimatedDelivery, tz),
         "Origem: " \o JsToString(trackingInfo.origin),
         "Destino: " \o JsToString(trackingInfo.destination)>>
    \o (IF Truthy(trackingInfo.weight)
        THEN <<"Peso: " \o JsToString(trackingInfo.weight)>> ELSE <<>>)
    \o <<"Historico de Eventos:">>
    \o [i \in 1..Len(EventsToShow(trackingInfo.events)) |->
            EventLine(trackingInfo.events[i], tz)]
    \o (IF Len(trackingInfo.events) > PromptEventLimit
        THEN <<"(... e mais " \o NatToString(Len(trackingInfo.events) - PromptEventLimit)
                  \o " eventos anteriores)">>
        ELSE <<>>)

\* What summarizeTrackingWithGemini gives to generateContent: nothing when
\* it returns at lines 62-67, else the prompt around the formatted record.
GenerateContentCall(apiKey, trackingInfo, tz) ==
    IF ~Truthy(apiKey) \/ apiKey = JStr("MISSING_API_KEY_PLACEHOLDER") THEN NoCall
    ELSE [kind |-> "generateContent",
          contents |-> formatTrackingDataForPrompt(trackingInfo, tz)]

summarizeTrackingWithGemini(apiKey, ai) ==
    [kind |-> "resolve",
     value |->
        IF ~Truthy(apiKey) THEN SummaryNoKeyMessage
        ELSE IF apiKey = JStr("MISSING_API_KEY_PLACEHOLDER") THEN SummaryMissingKeyMessage
        ELSE IF ai.kind = "throw" THEN SummaryFallback(ai.message)
        ELSE IF ai.kind = "throwValue" THEN SummaryFallback("Erro desconhecido")
        ELSE IF ~Truthy(ai.text) THEN SummaryFallback(EmptySummaryMessage)
        ELSE Trim(ai.text.s)]

AiOutcomes ==
    {[kind |-> "text", text |-> JStr("  A encomenda saiu para entrega.  ")],
     [kind |-> "text", text |-> JStr("")],
     [kind |-> "text", text |-> JUndef],
     [kind |-> "throw", message |-> "API key not valid. Please pass a valid API key."],
     [kind |-> "throw", message |-> "Quota exceeded for the model"],
     [kind |-> "throw", message |-> "network timeout"],
     [kind |-> "throwValue"]}

---------------------------------------------------------------------------
(* App.tsx: the handlers of the App component.  A handler that awaits is   *)
(* one action up to each await; pc says where it is suspended: "idle",     *)
(* "reading" (processXmlFile awaits parseXmlAndExtractAccessKey),          *)
(* "fetching" (processTrackingRequest awaits fetchTrackingData) or         *)
(* "summarizing" (it awaits summarizeTrackingWithGemini).  requests holds  *)
(* the keys given to fetchTrackingData since the last handleSubmit.        *)

EmptySubmissionMessage ==
    "Por favor, insira uma Chave de Acesso da DANFE ou selecione um arquivo XML."
NetworkErrorMessage ==
    "Falha ao buscar dados. Pode ser um problema de rede, CORS (API de destino pode nao permitir solicitacoes diretas do navegador) ou a API pode estar indisponivel. Verifique sua conexao e tente novamente."
TrackingFailedMessage == "Falha ao buscar informacoes de rastreamento."
XmlUnknownErrorMessage == "Erro desconhecido ao processar o arquivo XML."
SummaryFailedMessage == "Falha ao gerar o resumo da IA. Verifique o console."

\* The builds and hosts of the App: without and with a key, west of UTC and
\* at UTC, and one whose key is the placeholder of geminiService.ts.
Envs ==
    {Env(apiKey, tz) : apiKey \in {JUndef, JStr("AIza-key")}, tz \in {-180, 0}}
        \cup {Env(JStr("MISSING_API_KEY_PLACEHOLDER"), 0)}

\* What the form can hand to handleSubmit.
SubmittedStrings == {"", "   ", Key1, " " \o Key2 \o "  ", "123", "chave da nota"}
TypedIds == {"", Key1, "123"}

SubmittedFiles ==
    {[state |-> st, nodes |-> <<>>] : st \in {"unreadable", "empty", "malformed"}}
      \cup {[state |-> "wellformed", nodes |-> doc] :
              doc \in {MkDoc("noInfNFe", JUndef, JNull, JNull, ExtraNone),
                       MkDoc("nfeProc", JStr(Key1), JStr("NFe" \o Key1), JNull, ExtraFull),
                       MkDoc("NFe", JUndef, JStr("NFe" \o Key2), JNull, ExtraCarrier),
                       MkDoc("infNFe", JUndef, JNull, JStr(Key3), ExtraNone),
                       MkDoc("infNFe", JUndef, JNull, JStr("123"), ExtraNone),
                       MkDoc("NFe", JUndef, JStr("NFe123"), JNull, ExtraCarrier)}}

\* More events than the prompt of the summary shows, not in order of time.
ManyEvents ==
    <<EvIssued, EvSlash, EvDeparted, EvNoDate, EvArrived, EvIssuedText, EvSlashLate>>

\* How the provider can answer a request of the App.
AppResponses ==
    {[net |-> "down"],
     [net |-> "up", status |-> 404, json |-> TRUE,
      body |-> JObj([message |-> JStr("Chave invalida")])],
     [net |-> "up", status |-> 500, json |-> FALSE, body |-> JNull]}
      \cup {Ok200(Payload(flag, message, JUndef)) :
              flag \in {JBool(FALSE), JUndef},
              message \in {JUndef, JStr("Documento nao localizado"),
                           JStr("Chave de rastreamento nao encontrada na base SSW")}}
      \cup {Ok200(Payload(JBool(TRUE), JUndef, documento)) :
              documento \in {JUndef, Documento(FullHeader, JArr(<<>>)),
                             Documento(FullHeader, JArr(<<EvIssued, EvDeparted>>)),
                             Documento(JUndef, JArr(<<EvBadDate>>)),
                             Documento(FullHeader, JArr(<<JNull>>)),
                             Documento(FullHeader, JArr(ManyEvents)),
                             Documento(FullHeader, JArr(SubSeq(ManyEvents, 1, PromptEventLimit)))}}

InitApp ==
    /\ AppInit
    /\ fnIn = NoCall
    /\ fnOut = NoCall
    /\ clock = 0
    /\ sswAgain = NoCall
    /\ env \in Envs
    /\ xmlIn = NoCall
    /\ xmlOut = NoCall
    /\ sswIn = NoCall
    /\ sswOut = NoCall

\* A variant of the form that a PDF generation does not disable.
FormEnabled_IgnoresPdf == ~isLoading

\* The form's fields and buttons are disabled while a lookup or a PDF
\* generation is active.
FormEnabled == ~isLoading /\ ~isGeneratingPdfActive

\* onTrackingIdChange: the user edits the key field.
onTrackingIdChange(id) ==
    /\ FormEnabled
    /\ trackingIdInput' = id
    /\ UNCHANGED <<trackingData, geminiSummary, isLoading, error, isGeneratingPdfActive, timers,
                   generatePdfStatusMessage, pc, pending, requests, env, fnIn, fnOut, clock, sswAgain,
                   xmlIn, xmlOut, sswIn, sswOut>>

\* A variant that sends the request twice.
StartTrackingRequest_Twice(accessKey, xmlData, sent) ==
    /\ isLoading' = TRUE
    /\ error' = JNull
    /\ trackingData' = JNull
    /\ geminiSummary' = JNull
    /\ generatePdfStatusMessage' = JNull
    /\ trackingIdInput' = accessKey
    /\ requests' = Append(Append(sent, accessKey), accessKey)
    /\ pending' = [accessKey |-> accessKey, xmlData |-> xmlData]
    /\ pc' = "fetching"

\* A variant without the resetState(true) of line 38.
StartTrackingRequest_KeepsRecord(accessKey, xmlData, sent) ==
    /\ isLoading' = TRUE
    /\ UNCHANGED <<error, trackingData, geminiSummary, generatePdfStatusMessage>>
    /\ trackingIdInput' = accessKey
    /\ requests' = Append(sent, accessKey)
    /\ pending' = [accessKey |-> accessKey, xmlData |-> xmlData]
    /\ pc' = "fetching"

\* processTrackingRequest up to `await fetchTrackingData(...)`: the state
\* setters of lines 37-39 and the call, which sends the request.  sent holds
\* the requests of this submission so far.
StartTrackingRequest(accessKey, xmlData, sent) ==
    /\ isLoading' = TRUE
    /\ error' = JNull
    /\ trackingData' = JNull
    /\ geminiSummary' = JNull
    /\ generatePdfStatusMessage' = JNull
    /\ trackingIdInput' = accessKey
    /\ requests' = Append(sent, accessKey)
    /\ pending' = [accessKey |-> accessKey, xmlData |-> xmlData]
    /\ pc' = "fetching"

\* handleSubmit with a string: an empty one ends in resetState (which
\* clears the error set just before), any other starts a lookup of the
\* trimmed string.
handleSubmitString(submission) ==
    /\ FormEnabled
    /\ IF Trim(submission) = ""
       THEN /\ generatePdfStatusMessage' = JNull
            /\ error' = JNull
            /\ trackingData' = JNull
            /\ geminiSummary' = JNull
            /\ trackingIdInput' = ""
            /\ isLoading' = FALSE
            /\ requests' = <<>>
            /\ UNCHANGED <<pc, pending>>
       ELSE StartTrackingRequest(Trim(submission), JUndef, <<>>)
    /\ xmlIn' = NoCall
    /\ xmlOut' = NoCall
    /\ sswIn' = NoCall
    /\ sswOut' = NoCall
    /\ fnIn' = NoCall
    /\ fnOut' = NoCall
    /\ UNCHANGED <<isGeneratingPdfActive, timers, env, clock, sswAgain>>

\* A variant without the resetState() of processXmlFile.
handleSubmitFile_KeepsRecord(file) ==
    /\ FormEnabled
    /\ isLoading' = TRUE
    /\ pc' = "reading"
    /\ requests' = <<>>
    /\ xmlIn' = file
    /\ xmlOut' = Pending
    /\ sswIn' = NoCall
    /\ sswOut' = NoCall
    /\ fnIn' = NoCall
    /\ fnOut' = NoCall
    /\ UNCHANGED <<generatePdfStatusMessage, error, trackingData, geminiSummary,
                   trackingIdInput, pending, isGeneratingPdfActive, timers, env, clock, sswAgain>>

\* handleSubmit with a file: processXmlFile up to its await.
handleSubmitFile(file) ==
    /\ FormEnabled
    /\ generatePdfStatusMessage' = JNull
    /\ isLoading' = TRUE
    /\ error' = JNull
    /\ trackingData' = JNull
    /\ geminiSummary' = JNull
    /\ trackingIdInput' = ""
    /\ pc' = "reading"
    /\ requests' = <<>>
    /\ xmlIn' = file
    /\ xmlOut' = Pending
    /\ sswIn' = NoCall
    /\ sswOut' = NoCall
    /\ fnIn' = NoCall
    /\ fnOut' = NoCall
    /\ UNCHANGED <<pending, isGeneratingPdfActive, timers, env, clock, sswAgain>>

\* processXmlFile after its await: the catch block when the parse
\* rejected, processTrackingRequest up to its await when it resolved.
FileSettles ==
    /\ pc = "reading"
    /\ xmlOut' = parseXmlAndExtractAccessKey(xmlIn)
    /\ IF xmlOut'.kind = "reject"
       THEN /\ error' = JStr(IF xmlOut'.message # "" THEN xmlOut'.message
                             ELSE XmlUnknownErrorMessage)
            /\ trackingData' = JNull
            /\ geminiSummary' = JNull
            /\ isLoading' = FALSE
            /\ pc' = "idle"
            /\ UNCHANGED <<trackingIdInput, generatePdfStatusMessage, pending, requests>>
       ELSE StartTrackingRequest(xmlOut'.data.accessKey, xmlOut'.data, requests)
    /\ UNCHANGED <<isGeneratingPdfActive, timers, env, fnIn, fnOut, clock, sswAgain, xmlIn, sswIn, sswOut>>

\* xmlData?.carrierName and the like.
XmlField(xmlData, k) == IF xmlData = JUndef THEN JUndef ELSE xmlData[k]

\* A variant of the merge that leaves the installments out.
CombinedData_NoInstallments(sswTrackingData, xmlData) ==
    LET xml == [xmlVolumeInfo |-> XmlField(xmlData, "volumeInfo"),
                xmlInvoiceInfo |-> XmlField(xmlData, "invoiceInfo"),
                xmlInstallments |-> JUndef]
    IN [k \in DOMAIN sswTrackingData \cup DOMAIN xml |->
            IF k \in DOMAIN xml THEN xml[k] ELSE sswTrackingData[k]]

\* { ...sswTrackingData, xmlVolumeInfo, xmlInvoiceInfo, xmlInstallments }
CombinedData(sswTrackingData, xmlData) ==
    LET xml == [xmlVolumeInfo |-> XmlField(xmlData, "volumeInfo"),
                xmlInvoiceInfo |-> XmlField(xmlData, "invoiceInfo"),
                xmlInstallments |-> XmlField(xmlData, "installments")]
    IN [k \in DOMAIN sswTrackingData \cup DOMAIN xml |->
            IF k \in DOMAIN xml THEN xml[k] ELSE sswTrackingData[k]]

\* processTrackingRequest after `await fetchTrackingData`: http is what
\* the network gave to the request.
TrackingSettles(http) ==
    /\ pc = "fetching"
    /\ sswIn' = SswCall(pending.accessKey, XmlField(pending.xmlData, "carrierName"),
                        http, env.tz)
    /\ sswOut' = fetchTrackingData(pending.accessKey,
                                   XmlField(pending.xmlData, "carrierName"), http, env.tz)
    /\ IF sswOut'.kind = "resolve"
       THEN /\ trackingData' = CombinedData(sswOut'.info, pending.xmlData)
            /\ error' = error
            /\ IF Len(sswOut'.info.events) > 0 /\ Truthy(env.API_KEY)
               THEN /\ pc' = "summarizing"
                    /\ fnIn' = GenerateContentCall(env.API_KEY, trackingData', env.tz)
                    /\ fnOut' = Pending
                    /\ UNCHANGED <<geminiSummary, isLoading>>
               ELSE /\ geminiSummary' = IF Len(sswOut'.info.events) > 0
                                        THEN JStr(SummaryNoKeyMessage) ELSE JNull
                    /\ isLoading' = FALSE
                    /\ pc' = "idle"
                    /\ UNCHANGED <<fnIn, fnOut>>
       ELSE /\ error' = JStr(IF Includes(sswOut'.message, "Failed to fetch")
                             THEN NetworkErrorMessage
                             ELSE IF sswOut'.message # "" THEN sswOut'.message
                             ELSE TrackingFailedMessage)
            /\ trackingData' = JNull
            /\ geminiSummary' = JNull
            /\ isLoading' = FALSE
            /\ pc' = "idle"
            /\ UNCHANGED <<fnIn, fnOut>>
    /\ UNCHANGED <<trackingIdInput, isGeneratingPdfActive, timers, generatePdfStatusMessage,
                   pending, requests, env, clock, sswAgain, xmlIn, xmlOut>>

\* processTrackingRequest after `await summarizeTrackingWithGemini`.
SummarySettles(ai) ==
    /\ pc = "summarizing"
    /\ LET summary == summarizeTrackingWithGemini(env.API_KEY, ai) IN
       /\ geminiSummary' = IF summary.kind = "resolve" THEN JStr(summary.value)
                           ELSE JStr(SummaryFailedMessage)
       /\ fnOut' = [kind |-> summary.kind, value |-> summary.value, ai |-> ai]
    /\ isLoading' = FALSE
    /\ pc' = "idle"
    /\ UNCHANGED <<trackingIdInput, trackingData, error, isGeneratingPdfActive, timers,
                   generatePdfStatusMessage, pending, requests, env, fnIn, clock, sswAgain,
                   xmlIn, xmlOut, sswIn, sswOut>>

NoPdfDataMessage ==
    "Nenhum dado de rastreamento para gerar PDF ou referencia de exibicao ausente."
PdfFailedMessage == "Falha ao gerar ou baixar PDF. Tente novamente."
PdfFallbackMessage == "Falha ao gerar PDF."

\* canShare, as given to the form.
canShare == trackingData # JNull /\ Len(trackingData.events) > 0

\* The PDF button of the form is enabled.
PdfButtonEnabled == ~isLoading /\ ~isGeneratingPdfActive /\ canShare

\* trackingDisplayRef.current is set while TrackingDisplay is rendered.
DisplayMounted == trackingData # JNull /\ ~isLoading

\* The number of callbacks of setTimeout the model lets wait at once.
MaxTimers == 1

\* The non-whitespace run of str that starts at i.
RECURSIVE NonSpaceRun(_, _)
NonSpaceRun(str, i) ==
    IF i <= Len(str) /\ CharAt(str, i) \notin WhiteSpace
    THEN CharAt(str, i) \o NonSpaceRun(str, i + 1) ELSE ""

\* productName.match(/Nota Fiscal:\s*(\S+)/i): the group of the first match,
\* "" when there is none.
NfMatch(productName) ==
    LET lower == ToLowerCase(productName)
        starts == {i \in 1..Len(lower) :
                     /\ Slice(lower, i, i + 11) = "nota fiscal:"
                     /\ NonSpaceRun(productName, i + 12 + SpaceRun(productName, i + 12)) # ""}
    IN IF starts = {} THEN ""
       ELSE NonSpaceRun(productName, Min(starts) + 12 + SpaceRun(productName, Min(starts) + 12))

\* What triggerPdfDownload resolves with.
PdfSavedMessage(trackingInfo) ==
    LET nfMatch == IF Truthy(trackingInfo.productName)
                   THEN NfMatch(JsToString(trackingInfo.productName)) ELSE ""
        nfIdentifier == IF nfMatch # "" THEN nfMatch ELSE trackingInfo.id
    IN "PDF 'rastreio-nf" \o nfIdentifier \o ".pdf' baixado com sucesso."

\* How triggerPdfDownload can settle: html2canvas and jsPDF work or throw.
PdfOutcomes == {"saved", "failed"}

\* handleTriggerPdfDownload up to `await triggerPdfDownload()`.
handleTriggerPdfDownload ==
    /\ PdfButtonEnabled
    /\ timers < MaxTimers
    /\ IF trackingData = JNull \/ ~DisplayMounted
       THEN /\ generatePdfStatusMessage' = JStr(NoPdfDataMessage)
            /\ UNCHANGED isGeneratingPdfActive
       ELSE /\ isGeneratingPdfActive' = TRUE
            /\ generatePdfStatusMessage' = JNull
    /\ UNCHANGED <<trackingIdInput, trackingData, geminiSummary, isLoading, error, pc, pending,
                   requests, env, timers, fnIn, fnOut, clock, sswAgain, xmlIn, xmlOut, sswIn,
                   sswOut>>

\* handleTriggerPdfDownload after its await: the message, the finally block
\* and the timer it starts.
PdfSettles(outcome) ==
    /\ isGeneratingPdfActive
    /\ generatePdfStatusMessage' =
          IF outcome = "saved" THEN JStr(PdfSavedMessage(trackingData))
          ELSE JStr(IF PdfFailedMessage # "" THEN PdfFailedMessage ELSE PdfFallbackMessage)
    /\ isGeneratingPdfActive' = FALSE
    /\ timers' = timers + 1
    /\ UNCHANGED <<trackingIdInput, trackingData, geminiSummary, isLoading, error, pc, pending,
                   requests, env, fnIn, fnOut, clock, sswAgain, xmlIn, xmlOut, sswIn, sswOut>>

\* The callback of setTimeout, 7000 ms after a generation ended.
PdfStatusExpires ==
    /\ timers > 0
    /\ timers' = timers - 1
    /\ generatePdfStatusMessage' = JNull
    /\ UNCHANGED <<trackingIdInput, trackingData, geminiSummary, isLoading, error,
                   isGeneratingPdfActive, pc, pending, requests, env, fnIn, fnOut, clock,
                   sswAgain, xmlIn, xmlOut, sswIn, sswOut>>

Next ==
    \/ \E id \in TypedIds : onTrackingIdChange(id)
    \/ \E submission \in SubmittedStrings : handleSubmitString(submission)
    \/ \E file \in SubmittedFiles : handleSubmitFile(file)
    \/ FileSettles
    \/ \E http \in AppResponses : TrackingSettles(http)
    \/ \E ai \in AiOutcomes : SummarySettles(ai)
    \/ handleTriggerPdfDownload
    \/ \E outcome \in PdfOutcomes : PdfSettles(outcome)
    \/ PdfStatusExpires

Spec == InitApp /\ [][Next]_vars

---------------------------------------------------------------------------
(* Claims about the App (specification Spec).                              *)

\* C4: every key given to fetchTrackingData, and so sent to the provider
\* and stored as the id of the record, is exactly 44 digits, whether it
\* came from an XML file or was typed.
C4_OnlyValidKeysReachProvider ==
    /\ \A i \in 1..Len(requests) : ExactlyDigits(requests[i], 44)
    /\ sswIn # NoCall => ExactlyDigits(sswIn.accessKey, 44)
    /\ trackingData # JNull => ExactlyDigits(trackingData.id, 44)

\* C5: when the payload's success flag is false or absent, the call rejects
\* with the payload's message when it has one and with the generic
\* not-found message otherwise, and that message is the App's error once
\* the lookup has ended.
C5_ProviderMessageReachesError ==
    (pc = "idle" /\ SswSettled /\ HasPayload
        /\ ~Present(RawField(sswIn.http.body, "success"))) =>
        LET message == RawField(sswIn.http.body, "message")
            expected == IF Present(message) THEN message.s
                        ELSE "Chave de rastreamento nao encontrada ou invalida no SSW."
        IN /\ sswOut = [kind |-> "reject", message |-> expected]
           /\ error = JStr(expected)


\* The fields of the record that come from the provider.
ProviderFields ==
    {"id", "events", "currentStatus", "estimatedDelivery", "origin", "destination",
     "productName", "weight"}

\* C15: the stored record has the id, events, currentStatus,
\* estimatedDelivery, origin, destination, productName and weight of the
\* record fetchTrackingData returned, and its xmlVolumeInfo, xmlInvoiceInfo
\* and xmlInstallments are those of the parsed XML, all three absent when
\* the key was typed.
C15_HintsLeaveProviderDataAlone ==
    trackingData # JNull =>
        /\ sswOut # NoCall /\ sswOut.kind = "resolve"
        /\ \A k \in ProviderFields : trackingData[k] = sswOut.info[k]
        /\ IF xmlIn = NoCall
           THEN /\ trackingData.xmlVolumeInfo = JUndef
                /\ trackingData.xmlInvoiceInfo = JUndef
                /\ trackingData.xmlInstallments = JUndef
           ELSE /\ xmlOut.kind = "resolve"
                /\ trackingData.xmlVolumeInfo = xmlOut.data.volumeInfo
                /\ trackingData.xmlInvoiceInfo = xmlOut.data.invoiceInfo
                /\ trackingData.xmlInstallments = xmlOut.data.installments

\* A record with events, built for the key of an XML file that has a volume
\* block, a billing block and installments.
C15_Witness ==
    /\ trackingData # JNull
    /\ xmlIn # NoCall
    /\ Len(trackingData.events) > 0
    /\ trackingData.events = sswOut.info.events
    /\ trackingData.xmlVolumeInfo # JUndef
    /\ trackingData.xmlInvoiceInfo # JUndef
    /\ trackingData.xmlInstallments # JUndef
    /\ trackingData.xmlInstallments = xmlOut.data.installments

\* The lookup of the pending submission has ended and its request never
\* reached the provider: fetch itself rejected.
FetchRejected ==
    /\ pc = "idle"
    /\ SswSettled
    /\ sswIn.http.net = "down"

\* C21: when fetch rejects, fetchTrackingData rejects with fetch's own
\* message, so the App recognises 'Failed to fetch' and shows its network
\* error message.
C21_NetworkFailureSurfaced ==
    FetchRejected =>
        /\ sswOut = [kind |-> "reject", message |-> FetchFailedMessage]
        /\ error = JStr(NetworkErrorMessage)

\* The key of the submission in progress or last ended, if one is available:
\* the one extracted from the file, or the one the lookup was started with.
XmlFailed == xmlOut.kind = "reject"
XmlGaveKey == xmlOut.kind = "resolve"

\* C22: a submission gives at most one request to the provider, carrying the
\* access key: none while the file is read and none when the XML stage
\* rejected, exactly one with the extracted key once it resolved, exactly
\* one with the typed key for a typed submission, and still exactly one
\* after the lookup has failed.
C22_OneRequestPerSubmission ==
    /\ Len(requests) <= 1
    /\ (pc = "reading" \/ XmlFailed) => requests = <<>>
    /\ XmlGaveKey => requests = <<xmlOut.data.accessKey>>
    /\ pc \in {"fetching", "summarizing"} => requests = <<pending.accessKey>>
    /\ SswSettled => requests = <<sswIn.accessKey>>
    /\ (pc = "idle" /\ xmlIn = NoCall /\ requests # <<>>) => SswSettled

\* A lookup for a key extracted from a file has failed and the App is idle
\* again: one request was made.
C22_Witness ==
    /\ pc = "idle"
    /\ XmlGaveKey
    /\ SswSettled /\ ~SswResolved
    /\ requests = <<xmlOut.data.accessKey>>

\* The submission ended in a fatal error: the XML stage rejected, or the
\* call to the provider did.
EndedInFatalError ==
    /\ pc = "idle"
    /\ ~isLoading
    /\ \/ XmlFailed
       \/ SswSettled /\ ~SswResolved

\* C23: once a submission has ended in a fatal error the App holds a
\* non-empty error message and neither a record nor a summary, and at every
\* moment a stored record is the merge of a record that fetchTrackingData
\* resolved with: nothing is stored while the request is pending or after it
\* rejected.
C23_FatalErrorLeavesNoRecord ==
    /\ EndedInFatalError =>
          /\ IsStr(error) /\ error.s # ""
          /\ trackingData = JNull
          /\ geminiSummary = JNull
    /\ trackingData # JNull =>
          /\ SswResolved
          /\ trackingData = CombinedData(sswOut.info, pending.xmlData)
    /\ pc \in {"reading", "fetching"} => trackingData = JNull

\* A lookup that the provider answered with a failure has ended.
C23_Witness ==
    /\ EndedInFatalError
    /\ SswSettled /\ ~SswResolved
    /\ HasPayload
    /\ trackingData = JNull
    /\ error = JStr(sswOut.message)

\* The stored record stays as it is or is removed.
RecordKeptOrCleared == trackingData # JNull => trackingData' \in {trackingData, JNull}

\* C24: while the file of a new submission is read and while its request is
\* pending, no record and no summary are stored; a stored record is never
\* changed, only removed; and the id of a stored record is the key of the
\* most recent submission's request.
C24_RecordBelongsToOneLookup ==
    /\ [](pc \in {"reading", "fetching"} => trackingData = JNull /\ geminiSummary = JNull)
    /\ [](trackingData # JNull => requests = <<trackingData.id>>)
    /\ [][RecordKeptOrCleared]_vars

\* The record of the key of a submitted file is stored, with its events and
\* a summary.
C24_Witness ==
    /\ pc = "idle"
    /\ trackingData # JNull
    /\ xmlIn # NoCall
    /\ trackingData.id = Key1
    /\ Len(trackingData.events) > 0
    /\ geminiSummary # JNull

\* The lines of a prompt that show an event.
PromptEventLines(contents) == SelectSeq(contents, LAMBDA line : StartsWith(line, "- "))

SummarySettled == fnOut.kind \in {"resolve", "reject"}

\* The AI call of the settled summary failed: the key is the placeholder of
\* a missing one, the client threw, or the response had no text.
AiCallFailed ==
    \/ env.API_KEY = JStr("MISSING_API_KEY_PLACEHOLDER")
    \/ fnOut.ai.kind \in {"throw", "throwValue"}
    \/ ~Truthy(fnOut.ai.text)

\* The texts summarizeTrackingWithGemini gives in place of a summary.
IsSummaryPlaceholder(text) ==
    \/ text \in {SummaryNoKeyMessage, SummaryMissingKeyMessage, SummaryInvalidKeyMessage,
                 SummaryQuotaMessage}
    \/ StartsWith(text, "O resumo da IA nao pode ser gerado neste momento. (Erro: ")

IsShortDate(str) ==
    /\ Len(str) = 8
    /\ DigitsAt(str, {1, 2, 4, 5, 7, 8})
    /\ CharAt(str, 3) = "/" /\ CharAt(str, 6) = "/"
    /\ NumAt(str, 4, 5) \in 1..12
    /\ NumAt(str, 1, 2) \in 1..DaysInMonth(2000 + NumAt(str, 7, 8), NumAt(str, 4, 5))

\* The date that follows 'Previsao de entrega: ' in the description of the
\* issuance event, "" when there is none.
DeliveryText ==
    IF Truthy(DeliveryMatch(IssuanceText)) THEN DeliveryMatch(IssuanceText).s ELSE ""

\* C26: in every host time zone, a description with 'Previsao de entrega:
\* dd/MM/yy' gives the estimatedDelivery dd/MM/20yy: the same day, month and
\* year as the text.
C26_DeliveryDayInEveryZone ==
    (SswResolved /\ HasRawEvents /\ HasIssuance /\ IsShortDate(DeliveryText)) =>
        sswOut.info.estimatedDelivery =
            Slice(DeliveryText, 1, 6) \o "20" \o Slice(DeliveryText, 7, 8)

\* What the prompt shows behind 'Previsao de Entrega: '.
PromptDelivery(contents) ==
    LET lines == SelectSeq(contents, LAMBDA line : StartsWith(line, "Previsao de Entrega: "))
    IN SubstringFrom(lines[1], Len("Previsao de Entrega: "))

\* C27: the delivery line of the prompt given to the AI shows the
\* estimatedDelivery of the record as it is: the sentinel, or the same day,
\* month and year.
C27_PromptShowsDeliveryDate ==
    fnIn.kind = "generateContent" =>
        PromptDelivery(fnIn.contents) = trackingData.estimatedDelivery

\* handleSubmit runs with an empty or whitespace-only string.
EmptySubmission ==
    \E submission \in SubmittedStrings :
        Trim(submission) = "" /\ handleSubmitString(submission)

\* C28: after handleSubmit has run with an empty or whitespace-only string
\* the App's error is the 'Por favor, insira ...' message, isLoading is
\* false, no record is stored and no request was made.
C28_EmptySubmissionMessage ==
    [][EmptySubmission =>
          /\ error' = JStr(EmptySubmissionMessage)
          /\ ~isLoading'
          /\ trackingData' = JNull
          /\ requests' = <<>>]_vars

\* A submission starts a lookup: handleSubmit with a file or with a string
\* that is not blank.
SubmissionStarts ==
    \/ \E submission \in SubmittedStrings :
          Trim(submission) # "" /\ handleSubmitString(submission)
    \/ \E file \in SubmittedFiles : handleSubmitFile(file)

\* A PDF generation starts.
PdfStarts == ~isGeneratingPdfActive /\ isGeneratingPdfActive'

\* C29: isLoading and isGeneratingPdfActive are never both true; a lookup is
\* in flight exactly while isLoading is true, so there is one at most; a
\* submission starts only when no lookup is in flight and no PDF is being
\* generated; and a PDF generation starts only when no lookup is in flight
\* and a record with at least one event is stored.
C29_LookupAndPdfExclusive ==
    /\ [](~(isLoading /\ isGeneratingPdfActive))
    /\ [](isLoading <=> pc # "idle")
    /\ [][SubmissionStarts => pc = "idle" /\ ~isGeneratingPdfActive]_vars
    /\ [][PdfStarts => /\ pc = "idle"
                       /\ trackingData # JNull
                       /\ Len(trackingData.events) > 0]_vars

\* A PDF of a stored record is being generated.
C29_Witness ==
    /\ isGeneratingPdfActive
    /\ ~isLoading
    /\ pc = "idle"
    /\ Len(trackingData.events) > 0
    /\ geminiSummary # JNull
    /\ generatePdfStatusMessage = JNull

---------------------------------------------------------------------------
(* The App under the assumption that what it awaits settles: the file     *)
(* read, the request to the provider and the AI call.                     *)

\* One input of each kind the handlers tell apart.
LiveStrings == {"", Key1}
LiveFiles ==
    {[state |-> "malformed", nodes |-> <<>>],
     [state |-> "wellformed",
      nodes |-> MkDoc("NFe", JUndef, JStr("NFe" \o Key2), JNull, ExtraCarrier)]}
LiveResponses ==
    {[net |-> "down"],
     Ok200(Payload(JBool(FALSE), JStr("Documento nao localizado"), JUndef)),
     Ok200(Payload(JBool(TRUE), JUndef, Documento(FullHeader, JArr(<<>>)))),
     Ok200(Payload(JBool(TRUE), JUndef, Documento(FullHeader, JArr(<<EvIssued, EvDeparted>>))))}
LiveAiOutcomes ==
    {[kind |-> "text", text |-> JStr("  A encomenda saiu para entrega.  ")],
     [kind |-> "throw", message |-> "network timeout"]}

InitLive ==
    /\ InitApp
    /\ env.tz = 0
    /\ env.API_KEY \in {JUndef, JStr("AIza-key")}

NextLive ==
    \/ \E id \in LiveStrings : onTrackingIdChange(id)
    \/ \E submission \in LiveStrings : handleSubmitString(submission)
    \/ \E file \in LiveFiles : handleSubmitFile(file)
    \/ FileSettles
    \/ \E http \in LiveResponses : TrackingSettles(http)
    \/ \E ai \in LiveAiOutcomes : SummarySettles(ai)
    \/ handleTriggerPdfDownload
    \/ \E outcome \in PdfOutcomes : PdfSettles(outcome)
    \/ PdfStatusExpires

\* The steps that end an await: FileSettles, TrackingSettles and
\* SummarySettles are the only steps that leave "reading", "fetching" and
\* "summarizing", and each is enabled exactly while pc has that value.
ReadEnds == pc = "reading" /\ pc' \in {"idle", "fetching"}
FetchEnds == pc = "fetching" /\ pc' \in {"idle", "summarizing"}
SummaryEnds == pc = "summarizing" /\ pc' = "idle"

\* The promises the handlers await are settled by the browser, the network
\* and the AI client, whatever the user does meanwhile.
SpecLive ==
    /\ InitLive
    /\ [][NextLive]_vars
    /\ WF_pc(ReadEnds)
    /\ WF_pc(FetchEnds)
    /\ WF_pc(SummaryEnds)

\* A submission ends: a lookup stops loading, or handleSubmit returns at
\* once for a blank string.
SubmissionEnds == (isLoading /\ ~isLoading') \/ EmptySubmission

\* Every lookup that loads eventually stops loading.
LoadingEnds == isLoading ~> ~isLoading

\* C30: every submission eventually ends with isLoading false, and when it
\* ends exactly one of error and trackingData is non-null.
C30_SubmissionEndsWithErrorOrRecord ==
    /\ LoadingEnds
    /\ [][SubmissionEnds =>
            /\ ~isLoading'
            /\ (error' # JNull) # (trackingData' # JNull)]_vars

====
